---- MODULE Spec2Model ----
(***************************************************************************)
(* GATT client engine of direct_bt (GATTHandler.cpp) as a state machine.   *)
(*                                                                         *)
(* One calling thread runs against the L2CAP reader thread and a remote    *)
(* server.  The reader thread and disconnect() are modelled statement by   *)
(* statement, because they race on the engine state, the channel, the two  *)
(* reader flags and the listener slots.                                    *)
(*                                                                         *)
(*   Spec        connect, disconnect, send; the server sends responses     *)
(*   SpecReader  connect, disconnect, the listener setters; the server     *)
(*               also notifies and indicates                               *)
(*   SpecProc    connect, disconnect, the discovery, read and write        *)
(*               procedures; the server answers outstanding requests       *)
(*   SpecReaderFair  SpecReader with the two threads scheduled fairly      *)
(*   SpecOneAnswer   SpecProc with a server that answers each request once *)
(*                                                                         *)
(* The data the procedures compute is modelled sequentially, one pass of   *)
(* a loop per step, with send() and receiveNext() returning any outcome:   *)
(*                                                                         *)
(*   SpecDiscover  discoverCompletePrimaryServices and the discoveries     *)
(*   SpecRead      readCharacteristicValue, the writes,                    *)
(*                 configIndicationNotification                            *)
(*   SpecAccess    getGenericAccess and the reads it makes                 *)
(*                                                                         *)
(* The decoders of BTTypes.cpp are run on inputs drawn at the start:       *)
(*                                                                         *)
(*   SpecEir     EInfoReport::read_data on LTV streams, one element per    *)
(*               step                                                      *)
(*   SpecAd      EInfoReport::read_ad_reports on AD-report batches, one    *)
(*               loop pass per step                                        *)
(*   SpecEui     EUI48 from a string, then toString                        *)
(***************************************************************************)
EXTENDS Integers, Sequences, FiniteSets, TLC

\* ------------------------------------------------------------------------
\* Bounds of the model
\* ------------------------------------------------------------------------

\* PDUs the remote server puts on the channel in one behaviour.
MaxPdus == 2

\* Capacity of the inbound ring (attPDURing), scaled down.
RingCapacity == 2

\* Calls the calling thread makes in one behaviour.
MaxCalls == 3

\* Requests one call of a sequential run sends.
MaxReqs == 7

\* Requests one readCharacteristicValue() of a sequential run sends.
MaxReads == 4

\* ------------------------------------------------------------------------
\* Program constants
\* ------------------------------------------------------------------------

\* GATTHandler::State, in the order of STATE_ENUM; L2CAPComm::State shares
\* the first four values (connect() casts one to the other).
Error == 0
Disconnected == 1
Connecting == 2
Connected == 3

\* GATTHandler::ClientMaxMTU and Defaults::DEFAULT_MIN_ATT_MTU (header).
ClientMaxMTU == 512
DefaultMinMTU == 23

\* Sizes of the PDUs the engine itself builds.
MtuReqSize == 3
CfmSize == 1

NoPdu == [opc |-> "none", seq |-> 0, val |-> 0]
NoListener == "none"
Listeners == {"lA", "lThrow"}

\* MTU values an ATT_EXCHANGE_MTU_RSP may carry (uint16).
MtuVals == {0, 1, 185, 512, 513, 65535}

\* Sizes of the PDUs the caller hands to send().
SendSizes == {23, 186, 513}

NotifyOpcodes ==
    {"ATT_HANDLE_VALUE_NTF", "ATT_HANDLE_VALUE_IND", "ATT_MULTIPLE_HANDLE_VALUE_NTF"}

\* What the server may send with sequence number n (its position on the
\* wire): responses, and notifications / indications.
MtuRspPdus(n) ==
    { [opc |-> "ATT_EXCHANGE_MTU_RSP", seq |-> n, val |-> m] : m \in MtuVals }

ErrorRspPdu(n) == [opc |-> "ATT_ERROR_RSP", seq |-> n, val |-> 0]

NotifyPdus(n) == { [opc |-> o, seq |-> n, val |-> 0] : o \in NotifyOpcodes }

Min(x, y) == IF x <= y THEN x ELSE y

VARIABLES
    state,                       \* GATTHandler::state
    l2open,                      \* l2cap->isOpen()
    l2state,                     \* l2cap->getState()
    serverMTU, usedMTU,
    l2capReaderShallStop, l2capReaderRunning,
    l2capReaderThread,           \* "empty" or "joinable" (std::thread)
    attPDURing,                  \* inbound queue, oldest first
    gattNotificationListener, gattIndicationListener,
    sendIndicationConfirmation,
    rpc,                         \* position of the reader thread
    rpdu,                        \* PDU the reader holds
    rl,                          \* listener the reader saw in its null test
    rcfm,                        \* reader local: cfmSent and how send() ended
    wireIn,                      \* PDUs sent by the server, not yet read
    nextSeq,                     \* sequence number of the next server PDU
    wireOut,                     \* size of the last PDU given to l2cap->write()
    cpc,                         \* position of the calling thread
    cres,                        \* the caller's current / last call
    ncalls,                      \* calls made so far
    proc,                        \* locals of the procedure the caller runs
    terminated,                  \* std::terminate() or a crash ended the process
    services,                    \* GATTHandler::services and the lists in it
    ppc,                         \* the procedure a sequential run is in
    pl,                          \* locals and arguments of that procedure
    requests,                    \* the requests given to send(), oldest first
    result                       \* what the last procedure returned

engineVars == <<state, l2open, l2state, serverMTU, usedMTU>>
flagVars == <<l2capReaderShallStop, l2capReaderRunning, l2capReaderThread>>
listenerVars ==
    <<gattNotificationListener, gattIndicationListener, sendIndicationConfirmation>>
readerVars == <<rpc, rpdu, rl, rcfm>>
wireVars == <<wireIn, nextSeq>>
callerVars == <<cpc, cres, ncalls, proc>>

dataVars == <<services, ppc, pl, requests, result>>

vars == <<engineVars, flagVars, listenerVars, readerVars, wireVars, callerVars,
          attPDURing, wireOut, terminated, dataVars>>

NoCfm == [saw |-> FALSE, sent |-> "none", arg |-> FALSE]

\* Locals of a procedure of a sequential run, while none runs.
NoLocals == [name |-> "none"]

\* Locals of a procedure (NoProc while none runs): the start handle of the
\* range it was called with, its loop variable (startHandle / handle), the
\* end of its handle range, offset and expectedLength of a read, the number
\* of results it holds, done, the result of its last send(), and two counters:
\* the send() calls that returned true since its last receiveNext(), and its
\* receiveNext() calls.
NoProc ==
    [name |-> "none", startHandle |-> 0, handle |-> 0, endHandle |-> 0,
     offset |-> 0, expectedLength |-> 0, got |-> 0, done |-> TRUE, sendRes |-> FALSE,
     sends |-> 0, takes |-> 0, pdu |-> "none"]

\* The engine, its reader thread, its caller and the server at the start.
InitEngine ==
    /\ state = Disconnected
    /\ l2open = FALSE
    /\ l2state = Disconnected
    /\ serverMTU = DefaultMinMTU
    /\ usedMTU = DefaultMinMTU
    /\ l2capReaderShallStop = FALSE
    /\ l2capReaderRunning = FALSE
    /\ l2capReaderThread = "empty"
    /\ attPDURing = <<>>
    /\ gattNotificationListener = NoListener
    /\ gattIndicationListener = NoListener
    /\ sendIndicationConfirmation = FALSE
    /\ rpc = "none"
    /\ rpdu = NoPdu
    /\ rl = NoListener
    /\ rcfm = NoCfm
    /\ wireIn = <<>>
    /\ nextSeq = 1
    /\ wireOut = 0
    /\ cpc = "idle"
    /\ cres = [op |-> "none", res |-> "none", preState |-> Disconnected,
               preOpen |-> FALSE, arg |-> 0, w |-> "none", l |-> NoListener]
    /\ ncalls = 0
    /\ proc = NoProc
    /\ terminated = FALSE

Init ==
    /\ InitEngine
    /\ services = <<>>
    /\ ppc = "idle"
    /\ pl = NoLocals
    /\ requests = <<>>
    /\ result = "none"

\* ------------------------------------------------------------------------
\* validateState()
\* ------------------------------------------------------------------------

IsOpenState(s) == Disconnected < s

\* The three open-ness flags of validateState().
FlagA == IsOpenState(state)
FlagB == l2open
FlagC == Disconnected < l2state

\* validateState() throws InvalidStateException.
validateStateThrows ==
    /\ FlagA \/ FlagB \/ FlagC
    /\ FlagA # FlagB \/ FlagA # FlagC \/ FlagB # FlagC


\* ------------------------------------------------------------------------
\* send()
\* ------------------------------------------------------------------------

\* A faulty variant of SizeRefused: the size is compared with the client's maximum.
SizeRefused_ClientMax(sz) == sz > ClientMaxMTU

\* send() refuses the PDU: msg.pdu.getSize() > usedMTU.
SizeRefused(sz) == sz > usedMTU

\* Engine state after l2cap->write() returned a negative value.
StateAfterWriteError == Error

\* The ways send(msg) can end for a PDU of sz bytes: res is what the caller
\* sees, st the engine state afterwards, w what happened on l2cap->write()
\* ("none": not called, "full": all bytes, "short": 0 <= res < size,
\* "error": res < 0).
SendOutcomes(sz) ==
    IF validateStateThrows
    THEN { [res |-> "InvalidState", st |-> state, w |-> "none"] }
    ELSE IF ~IsOpenState(state)
    THEN { [res |-> "false", st |-> state, w |-> "none"] }
    ELSE IF SizeRefused(sz)
    THEN { [res |-> "IllegalArgument", st |-> state, w |-> "none"] }
    ELSE { [res |-> "true", st |-> state, w |-> "full"],
           [res |-> "false", st |-> state, w |-> "short"],
           [res |-> "false", st |-> StateAfterWriteError, w |-> "error"] }

\* l2cap->write() was called for sz bytes (o.w # "none"), or not.
WireAfter(o, sz) ==
    IF o.w = "none" THEN wireOut ELSE sz

Exceptions == {"InvalidState", "IllegalArgument"}

\* A call record of the calling thread: the call, its result ("pending"
\* until it ends), the engine state and channel it was made in, its argument
\* (send: the PDU size; connect: the MTU exchangeMTU() returned), what
\* its send() did on l2cap->write() and the listener a setter was given.
Call(op, res, arg) ==
    [op |-> op, res |-> res, preState |-> state, preOpen |-> l2open,
     arg |-> arg, w |-> "none", l |-> NoListener]

\* ------------------------------------------------------------------------
\* The calling thread
\* ------------------------------------------------------------------------

\* serverMTU after exchangeMTU() returned mtu.
ServerMTUAfter(mtu) == IF 0 < mtu THEN mtu ELSE serverMTU

\* A faulty variant of UsedMTUFor: the server's MTU is used as it is.
UsedMTUFor_NoCap(srv) == srv

\* usedMTU as connect() computes it from the server's MTU.
UsedMTUFor(srv) == Min(ClientMaxMTU, srv)

\* A faulty variant of ConnectAlreadyOpen: the test is off by one state.
ConnectAlreadyOpen_OffByOne == Connected < state

\* connect(): the first validateState() test.
ConnectAlreadyOpen == IsOpenState(state)

\* connect(), up to the start of the reader thread.
ConnectCall ==
    /\ cpc = "idle" /\ ~terminated /\ ncalls < MaxCalls
    /\ ncalls' = ncalls + 1
    /\ IF validateStateThrows
       THEN /\ cres' = Call("connect", "InvalidState", 0)
            /\ UNCHANGED <<engineVars, flagVars, readerVars, cpc, proc,
                           terminated>>
       ELSE IF ConnectAlreadyOpen
       THEN /\ cres' = Call("connect", "true", 0)
            /\ UNCHANGED <<engineVars, flagVars, readerVars, cpc, proc,
                           terminated>>
       ELSE \E r \in {Connected, Disconnected, Error} :    \* l2cap->connect()
            /\ l2state' = r
            /\ l2open' = (r = Connected)
            /\ state' = r
            /\ UNCHANGED <<serverMTU, usedMTU, l2capReaderShallStop,
                           l2capReaderRunning, rpdu, rl, rcfm>>
            /\ IF ~IsOpenState(r)
               THEN /\ cres' = Call("connect", "false", 0)
                    /\ UNCHANGED <<l2capReaderThread, rpc, cpc, proc,
                                   terminated>>
               ELSE IF l2capReaderThread = "joinable"
               THEN \* assigning to a joinable std::thread: std::terminate()
                    /\ terminated' = TRUE
                    /\ cres' = Call("connect", "pending", 0)
                    /\ UNCHANGED <<l2capReaderThread, rpc, cpc, proc>>
               ELSE /\ l2capReaderThread' = "joinable"
                    /\ rpc' = "init1"
                    /\ cpc' = "mtu_send"
                    /\ cres' = Call("connect", "pending", 0)
                    /\ proc' = [NoProc EXCEPT !.name = "exchangeMTU",
                                              !.done = FALSE]
                    /\ UNCHANGED terminated
    /\ UNCHANGED <<listenerVars, wireVars, attPDURing, wireOut>>
    /\ UNCHANGED dataVars

\* The procedure's counters after a send() that ended with res.
Sent(p, res) ==
    [p EXCEPT !.sendRes = (res = "true"),
              !.sends = IF res = "true" THEN @ + 1 ELSE @]

\* The procedure's counters after receiveNext().
Took(p) == [p EXCEPT !.sends = 0, !.takes = @ + 1]

\* A faulty variant of ReceivesNext: receiveNext() follows every send() that returned.
ReceivesNext_AnyReturn(res) == res \in {"true", "false"}

\* if( send(req) ) { pdu = receiveNext(); ... }
ReceivesNext(res) == res = "true"

\* connect(): exchangeMTU(ClientMaxMTU) sends its request.
ConnectMtuSend ==
    /\ cpc = "mtu_send" /\ ~terminated
    /\ UNCHANGED ncalls
    /\ \E o \in SendOutcomes(MtuReqSize) :
        /\ state' = o.st
        /\ wireOut' = WireAfter(o, MtuReqSize)
        /\ proc' = IF ReceivesNext(o.res) THEN Sent(proc, o.res) ELSE NoProc
        /\ IF ReceivesNext(o.res)
           THEN /\ cpc' = "mtu_take"
                /\ cres' = [cres EXCEPT !.w = o.w]
                /\ UNCHANGED <<serverMTU, usedMTU>>
           ELSE IF o.res = "false"
           THEN /\ cpc' = "idle"
                /\ serverMTU' = ServerMTUAfter(0)
                /\ usedMTU' = UsedMTUFor(ServerMTUAfter(0))
                /\ cres' = [cres EXCEPT !.res = "true", !.w = o.w]
           ELSE /\ cpc' = "idle"
                /\ cres' = [cres EXCEPT !.res = o.res, !.w = o.w]
                /\ UNCHANGED <<serverMTU, usedMTU>>
    /\ UNCHANGED <<l2open, l2state, flagVars, listenerVars, readerVars, wireVars,
                   attPDURing, terminated>>
    /\ UNCHANGED dataVars

\* The MTU exchangeMTU() returns for the PDU it took.
MtuOfResponse(pdu) == IF pdu.opc = "ATT_EXCHANGE_MTU_RSP" THEN pdu.val ELSE 0

\* A faulty variant of AfterReceiveNext: the PDU is read and left in the queue.
AfterReceiveNext_Peek(ring) == ring

\* receiveNext(): attPDURing.getBlocking() removes the PDU it returns.
AfterReceiveNext(ring) == Tail(ring)

\* connect(): exchangeMTU() takes one PDU, connect() sets the MTUs.
ConnectMtuTake ==
    /\ cpc = "mtu_take" /\ ~terminated
    /\ UNCHANGED ncalls
    /\ attPDURing # <<>>
    /\ LET pdu == Head(attPDURing)
           mtu == MtuOfResponse(pdu)
       IN /\ attPDURing' = AfterReceiveNext(attPDURing)
          /\ proc' = NoProc
          /\ serverMTU' = ServerMTUAfter(mtu)
          /\ usedMTU' = UsedMTUFor(ServerMTUAfter(mtu))
          /\ cres' = [cres EXCEPT !.res = "true", !.arg = mtu]
    /\ cpc' = "idle"
    /\ UNCHANGED <<state, l2open, l2state, flagVars, listenerVars, readerVars,
                   wireVars, wireOut, terminated>>
    /\ UNCHANGED dataVars

\* A faulty variant of DisconnectNotOpen: > instead of >=.
DisconnectNotOpen_Strict == Disconnected > state

\* disconnect(): Disconnected >= validateState().
DisconnectNotOpen == ~IsOpenState(state)

\* disconnect(): the first validateState() test.
DisconnectCall ==
    /\ cpc = "idle" /\ ~terminated /\ ncalls < MaxCalls
    /\ ncalls' = ncalls + 1
    /\ UNCHANGED proc
    /\ IF validateStateThrows
       THEN /\ cres' = Call("disconnect", "InvalidState", 0)
            /\ UNCHANGED cpc
       ELSE IF DisconnectNotOpen
       THEN /\ cres' = Call("disconnect", "false", 0)
            /\ UNCHANGED cpc
       ELSE /\ cres' = Call("disconnect", "pending", 0)
            /\ cpc' = "disc_sig"
    /\ UNCHANGED <<engineVars, flagVars, listenerVars, readerVars, wireVars,
                   attPDURing, wireOut, terminated>>
    /\ UNCHANGED dataVars

\* disconnect(): tell the reader to stop and signal it.
DisconnectSignal ==
    /\ cpc = "disc_sig" /\ ~terminated
    /\ UNCHANGED <<ncalls, proc>>
    /\ l2capReaderShallStop' =
          IF l2capReaderRunning /\ l2capReaderThread = "joinable"
          THEN TRUE ELSE l2capReaderShallStop
    /\ cpc' = "disc_close"
    /\ UNCHANGED <<engineVars, l2capReaderRunning, l2capReaderThread, listenerVars,
                   readerVars, wireVars, attPDURing, wireOut, cres, terminated>>
    /\ UNCHANGED dataVars

\* disconnect(): l2cap->disconnect().
DisconnectClose ==
    /\ cpc = "disc_close" /\ ~terminated
    /\ UNCHANGED <<ncalls, proc>>
    /\ l2open' = FALSE
    /\ l2state' = Disconnected
    /\ wireIn' = <<>>
    /\ cpc' = "disc_state"
    /\ UNCHANGED <<state, serverMTU, usedMTU, flagVars, listenerVars, readerVars,
                   nextSeq, attPDURing, wireOut, cres, terminated>>
    /\ UNCHANGED dataVars

\* disconnect(): state = Disconnected.
DisconnectState ==
    /\ cpc = "disc_state" /\ ~terminated
    /\ UNCHANGED <<ncalls, proc>>
    /\ state' = Disconnected
    /\ cpc' = "disc_join"
    /\ UNCHANGED <<l2open, l2state, serverMTU, usedMTU, flagVars, listenerVars,
                   readerVars, wireVars, attPDURing, wireOut, cres, terminated>>
    /\ UNCHANGED dataVars

\* disconnect(): the guard of the join.
JoinWanted == l2capReaderRunning /\ l2capReaderThread = "joinable"

\* disconnect(): join the reader if it is still running; join() returns when
\* the thread function has returned.
DisconnectJoin ==
    /\ cpc = "disc_join" /\ ~terminated
    /\ UNCHANGED <<ncalls, proc>>
    /\ IF JoinWanted
       THEN /\ cpc' = "disc_joining"
            /\ UNCHANGED l2capReaderThread
       ELSE /\ cpc' = "disc_reset"
            /\ UNCHANGED l2capReaderThread
    /\ UNCHANGED <<engineVars, l2capReaderShallStop, l2capReaderRunning,
                   listenerVars, readerVars, wireVars, attPDURing, wireOut, cres,
                   terminated>>
    /\ UNCHANGED dataVars

DisconnectJoined ==
    /\ cpc = "disc_joining" /\ ~terminated
    /\ UNCHANGED <<ncalls, proc>>
    /\ rpc = "done"
    /\ l2capReaderThread' = "empty"
    /\ cpc' = "disc_reset"
    /\ UNCHANGED <<engineVars, l2capReaderShallStop, l2capReaderRunning,
                   listenerVars, readerVars, wireVars, attPDURing, wireOut, cres,
                   terminated>>
    /\ UNCHANGED dataVars

\* disconnect(): l2capReaderThread = std::thread() and the final
\* validateState().  Assigning to a joinable std::thread is std::terminate().
DisconnectReset ==
    /\ cpc = "disc_reset" /\ ~terminated
    /\ UNCHANGED <<ncalls, proc>>
    /\ IF l2capReaderThread = "joinable"
       THEN /\ terminated' = TRUE
            /\ UNCHANGED <<cpc, cres, l2capReaderThread>>
       ELSE /\ l2capReaderThread' = "empty"
            /\ cpc' = "idle"
            /\ cres' = [cres EXCEPT !.res =
                          IF validateStateThrows THEN "InvalidState"
                          ELSE IF state = Disconnected THEN "true" ELSE "false"]
            /\ UNCHANGED terminated
    /\ UNCHANGED <<engineVars, l2capReaderShallStop, l2capReaderRunning,
                   listenerVars, readerVars, wireVars, attPDURing, wireOut>>
    /\ UNCHANGED dataVars

\* send(msg) called by the user with a PDU of sz bytes.
SendCall ==
    /\ cpc = "idle" /\ ~terminated /\ ncalls < MaxCalls
    /\ ncalls' = ncalls + 1
    /\ UNCHANGED proc
    /\ \E sz \in SendSizes : \E o \in SendOutcomes(sz) :
        /\ state' = o.st
        /\ wireOut' = WireAfter(o, sz)
        /\ cres' = [Call("send", o.res, sz) EXCEPT !.w = o.w]
    /\ UNCHANGED <<l2open, l2state, serverMTU, usedMTU, flagVars, listenerVars,
                   readerVars, wireVars, attPDURing, cpc, terminated>>
    /\ UNCHANGED dataVars

\* A faulty variant of ReturnedListener: the listener just installed.
ReturnedListener_New(o, l) == l

\* o = gattNotificationListener; gattNotificationListener = l; return o;
ReturnedListener(o, l) == o

\* setGATTNotificationListener(l)
SetNotificationListener ==
    /\ cpc = "idle" /\ ~terminated /\ ncalls < MaxCalls
    /\ ncalls' = ncalls + 1
    /\ UNCHANGED proc
    /\ \E l \in Listeners \cup {NoListener} :
        /\ gattNotificationListener' = l
        /\ cres' = [Call("setNtf",
                          ReturnedListener(gattNotificationListener, l), 0)
                       EXCEPT !.l = l]
    /\ UNCHANGED <<engineVars, flagVars, gattIndicationListener,
                   sendIndicationConfirmation, readerVars, wireVars, attPDURing,
                   wireOut, cpc, terminated>>
    /\ UNCHANGED dataVars

\* setGATTIndicationListener(l, sendConfirmation)
SetIndicationListener ==
    /\ cpc = "idle" /\ ~terminated /\ ncalls < MaxCalls
    /\ ncalls' = ncalls + 1
    /\ UNCHANGED proc
    /\ \E l \in Listeners \cup {NoListener}, c \in BOOLEAN :
        /\ gattIndicationListener' = l
        /\ sendIndicationConfirmation' = c
        /\ cres' = [Call("setInd",
                          ReturnedListener(gattIndicationListener, l), 0)
                       EXCEPT !.l = l]
    /\ UNCHANGED <<engineVars, flagVars, gattNotificationListener, readerVars,
                   wireVars, attPDURing, wireOut, cpc, terminated>>
    /\ UNCHANGED dataVars


\* ------------------------------------------------------------------------
\* The procedures
\* ------------------------------------------------------------------------

\* 0xffff, the end of the handle range of discoverPrimaryServices().
LastHandle == 65535

\* AttErrorRsp::ATTRIBUTE_NOT_LONG
AttributeNotLong == 11

Discoveries ==
    {"discoverPrimaryServices", "discoverCharacteristics",
     "discoverClientCharacteristicConfig", "discoverCharacteristicDescriptors"}

Writes == {"writeClientCharacteristicConfigReq", "writeCharacteristicValueReq"}

Procedures == Discoveries \cup {"readCharacteristicValue"} \cup Writes

\* The services the discoveries are called with: a handle range and the
\* number of characteristics the service's list holds.
Services ==
    { [startHandle |-> 1, endHandle |-> 2, chars |-> c] : c \in {0, 1} }
      \cup { [startHandle |-> LastHandle, endHandle |-> LastHandle,
               chars |-> 0] }

\* The values of expectedLength readCharacteristicValue() is called with.
ExpectedLengths == {0, 23}

\* The locals of procedure name at its start, called with service srv and
\* expectedLength len.
ProcStart(name, srv, len) ==
    [NoProc EXCEPT
       !.name = name,
       !.done = FALSE,
       !.startHandle = IF name = "discoverPrimaryServices" THEN 1
                       ELSE IF name \in Discoveries THEN srv.startHandle
                       ELSE 0,
       !.handle = IF name = "discoverPrimaryServices" THEN 1
                  ELSE IF name = "discoverCharacteristicDescriptors"
                  THEN (srv.startHandle + 1) % (LastHandle + 1)   \* uint16_t
                  ELSE IF name \in Discoveries THEN srv.startHandle
                  ELSE 0,
       !.endHandle = IF name = "discoverPrimaryServices" THEN LastHandle
                     ELSE IF name \in Discoveries THEN srv.endHandle
                     ELSE 0,
       !.got = IF name = "discoverClientCharacteristicConfig" THEN srv.chars
               ELSE 0,
       !.expectedLength = IF name = "readCharacteristicValue" THEN len ELSE 0]

\* The response a procedure expects.
ExpectedRsp(name) ==
    IF name = "discoverPrimaryServices" THEN "ATT_READ_BY_GROUP_TYPE_RSP"
    ELSE IF name \in {"discoverCharacteristics",
                      "discoverClientCharacteristicConfig"}
    THEN "ATT_READ_BY_TYPE_RSP"
    ELSE IF name = "discoverCharacteristicDescriptors"
    THEN "ATT_FIND_INFORMATION_RSP"
    ELSE IF name = "readCharacteristicValue" THEN "ATT_READ_RSP"
    ELSE "ATT_WRITE_RSP"

\* Size of the request a procedure sends next.
ReqSize(p) ==
    IF p.name \in {"discoverPrimaryServices", "discoverCharacteristics",
                   "discoverClientCharacteristicConfig"} THEN 7
    ELSE IF p.name = "discoverCharacteristicDescriptors" THEN 5
    ELSE IF p.name = "readCharacteristicValue"
    THEN (IF p.offset = 0 THEN 3 ELSE 5)
    ELSE 5

\* A discovery's loop variable after a response whose last element has
\* (end) handle h: handle = h; if( handle < end ) handle++; else done = true.
Advance(p, h) ==
    IF h < p.endHandle
    THEN [p EXCEPT !.handle = h + 1]
    ELSE [p EXCEPT !.handle = h, !.done = TRUE]

\* A faulty variant of DiscoveryTook: only ATT_ERROR_RSP ends the loop.
DiscoveryTook_GoesOn(p, pdu) ==
    IF pdu.opc = ExpectedRsp(p.name)
    THEN [Advance(p, pdu.val) EXCEPT
            !.got = IF p.name = "discoverClientCharacteristicConfig"
                    THEN @ ELSE @ + 1]
    ELSE IF pdu.opc = "ATT_ERROR_RSP" THEN [p EXCEPT !.done = TRUE]
    ELSE p

\* A discovery's locals after it took pdu.
DiscoveryTook(p, pdu) ==
    IF pdu.opc = ExpectedRsp(p.name)
    THEN [Advance(p, pdu.val) EXCEPT
            !.got = IF p.name = "discoverClientCharacteristicConfig"
                    THEN @ ELSE @ + 1]
    ELSE [p EXCEPT !.done = TRUE]

\* p->getPDUValueSize() < p->getMaxPDUValueSize(usedMTU)
ShortValue(n) == n < usedMTU - 1

\* readCharacteristicValue()'s locals after it took pdu (val: value size,
\* or the error code of an ATT_ERROR_RSP).
ReadTook(p, pdu) ==
    IF pdu.opc = "ATT_READ_RSP"
    THEN [p EXCEPT !.offset = @ + pdu.val, !.done = ShortValue(pdu.val)]
    ELSE IF pdu.opc = "ATT_READ_BLOB_RSP"
    THEN IF pdu.val = 0
         THEN [p EXCEPT !.done = TRUE]
         ELSE [p EXCEPT !.offset = @ + pdu.val, !.done = ShortValue(pdu.val)]
    ELSE [p EXCEPT !.done = TRUE]

\* A faulty variant of WriteTook: res = true whatever was taken.
WriteTook_AnyRsp(p, pdu) == [p EXCEPT !.done = TRUE, !.got = 1]

\* A write's locals after it took pdu: res = true for ATT_WRITE_RSP only.
WriteTook(p, pdu) ==
    [p EXCEPT !.done = TRUE,
              !.got = IF pdu.opc = "ATT_WRITE_RSP" THEN 1 ELSE 0]

\* A faulty variant of ReadBreaks: the loop goes on until offset is above
\* expectedLength.
ReadBreaks_Strict(p) ==
    /\ p.name = "readCharacteristicValue"
    /\ 0 < p.expectedLength /\ p.expectedLength < p.offset

\* readCharacteristicValue(): the two tests at the top of its loop.
ReadBreaks(p) ==
    /\ p.name = "readCharacteristicValue"
    /\ \/ 0 < p.expectedLength /\ p.expectedLength <= p.offset
       \/ 0 = p.expectedLength /\ 0 < p.offset

\* What the procedure returns.
ProcResult(p) ==
    IF p.name = "readCharacteristicValue"
    THEN (IF p.offset > 0 THEN "true" ELSE "false")
    ELSE (IF p.got > 0 THEN "true" ELSE "false")

\* A procedure is called.
ProcCall ==
    /\ cpc = "idle" /\ ~terminated /\ ncalls < MaxCalls
    /\ ncalls' = ncalls + 1
    /\ \E name \in Procedures, srv \in Services, len \in ExpectedLengths :
        /\ name \notin Discoveries \ {"discoverPrimaryServices"}
               => srv.chars = 0
        /\ name # "readCharacteristicValue" => len = 0
        /\ proc' = ProcStart(name, srv, len)
        /\ cres' = Call(name, "pending", 0)
    /\ cpc' = "p_loop"
    /\ UNCHANGED <<engineVars, flagVars, listenerVars, readerVars, wireVars,
                   attPDURing, wireOut, terminated>>
    /\ UNCHANGED dataVars

\* while(!done) ended, or a read left its loop: the procedure returns.
ProcReturn ==
    /\ cpc = "p_loop" /\ ~terminated
    /\ proc.done \/ ReadBreaks(proc)
    /\ cpc' = "idle"
    /\ cres' = [cres EXCEPT !.res = ProcResult(proc)]
    /\ proc' = NoProc
    /\ UNCHANGED ncalls
    /\ UNCHANGED <<engineVars, flagVars, listenerVars, readerVars, wireVars,
                   attPDURing, wireOut, terminated>>
    /\ UNCHANGED dataVars

\* The procedure sends its next request; an exception of send() ends it.
ProcSend ==
    /\ cpc = "p_loop" /\ ~terminated
    /\ ~proc.done /\ ~ReadBreaks(proc)
    /\ UNCHANGED ncalls
    /\ \E o \in SendOutcomes(ReqSize(proc)) :
        /\ state' = o.st
        /\ wireOut' = WireAfter(o, ReqSize(proc))
        /\ IF ReceivesNext(o.res)
           THEN /\ cpc' = "p_take"
                /\ proc' = Sent(proc, o.res)
                /\ UNCHANGED cres
           ELSE IF o.res = "false"
           THEN /\ cpc' = "p_loop"
                /\ proc' = [Sent(proc, o.res) EXCEPT !.done = TRUE]
                /\ UNCHANGED cres
           ELSE /\ cpc' = "idle"
                /\ proc' = NoProc
                /\ cres' = [cres EXCEPT !.res = o.res]
    /\ UNCHANGED <<l2open, l2state, serverMTU, usedMTU, flagVars, listenerVars,
                   readerVars, wireVars, attPDURing, terminated>>
    /\ UNCHANGED dataVars

\* The procedure takes one PDU (receiveNext() blocks on an empty queue) and
\* branches on its opcode.
ProcTake ==
    /\ cpc = "p_take" /\ ~terminated
    /\ attPDURing # <<>>
    /\ UNCHANGED ncalls
    /\ LET pdu == Head(attPDURing)
           p == [Took(proc) EXCEPT !.pdu = pdu.opc]
       IN /\ attPDURing' = AfterReceiveNext(attPDURing)
          /\ proc' = IF p.name \in Discoveries THEN DiscoveryTook(p, pdu)
                     ELSE IF p.name = "readCharacteristicValue"
                     THEN ReadTook(p, pdu)
                     ELSE WriteTook(p, pdu)
    /\ cpc' = "p_loop"
    /\ UNCHANGED <<engineVars, flagVars, listenerVars, readerVars, wireVars,
                   cres, wireOut, terminated>>
    /\ UNCHANGED dataVars

\* ------------------------------------------------------------------------
\* The reader thread: l2capReaderThreadImpl()
\* ------------------------------------------------------------------------

\* l2capReaderShallStop = false
ReaderInitStop ==
    /\ rpc = "init1" /\ ~terminated
    /\ l2capReaderShallStop' = FALSE
    /\ rpc' = "init2"
    /\ UNCHANGED <<engineVars, l2capReaderRunning, l2capReaderThread, listenerVars,
                   rpdu, rl, rcfm, wireVars, callerVars, attPDURing,
                   wireOut, terminated>>
    /\ UNCHANGED dataVars

\* l2capReaderRunning = true
ReaderInitRunning ==
    /\ rpc = "init2" /\ ~terminated
    /\ l2capReaderRunning' = TRUE
    /\ rpc' = "while"
    /\ UNCHANGED <<engineVars, l2capReaderShallStop, l2capReaderThread,
                   listenerVars, rpdu, rl, rcfm, wireVars, callerVars,
                   attPDURing, wireOut, terminated>>
    /\ UNCHANGED dataVars

\* while( !l2capReaderShallStop )
ReaderWhile ==
    /\ rpc = "while" /\ ~terminated
    /\ rpc' = IF l2capReaderShallStop THEN "exit" ELSE "validate"
    /\ UNCHANGED <<engineVars, flagVars, listenerVars, rpdu, rl, rcfm,
                   wireVars, callerVars, attPDURing, wireOut, terminated>>
    /\ UNCHANGED dataVars

\* if( Disconnected >= validateState() ) { l2capReaderShallStop = true; break; }
\* An InvalidStateException leaves the thread function: std::terminate().
ReaderValidate ==
    /\ rpc = "validate" /\ ~terminated
    /\ IF validateStateThrows
       THEN /\ terminated' = TRUE
            /\ UNCHANGED <<rpc, l2capReaderShallStop>>
       ELSE IF ~IsOpenState(state)
       THEN /\ l2capReaderShallStop' = TRUE
            /\ rpc' = "exit"
            /\ UNCHANGED terminated
       ELSE /\ rpc' = "read"
            /\ UNCHANGED <<l2capReaderShallStop, terminated>>
    /\ UNCHANGED <<engineVars, l2capReaderRunning, l2capReaderThread, listenerVars,
                   rpdu, rl, rcfm, wireVars, callerVars, attPDURing,
                   wireOut>>
    /\ UNCHANGED dataVars

\* l2cap->read() with the poll timeout: a PDU (0 < len), or a timeout or an
\* error (closed channel), after which the loop goes round.
ReaderRead ==
    /\ rpc = "read" /\ ~terminated
    /\ IF l2open /\ wireIn # <<>>
       THEN /\ rpdu' = Head(wireIn)
            /\ wireIn' = Tail(wireIn)
            /\ rpc' = "dispatch"
       ELSE /\ rpc' = "while"
            /\ UNCHANGED <<rpdu, wireIn>>
    /\ rcfm' = NoCfm
    /\ rl' = NoListener
    /\ UNCHANGED <<engineVars, flagVars, listenerVars, nextSeq,
                   callerVars, attPDURing, wireOut, terminated>>
    /\ UNCHANGED dataVars

\* A faulty variant of DispatchOf: no branch for ATT_MULTIPLE_HANDLE_VALUE_NTF.
DispatchOf_NoMulti(opc) ==
    IF opc = "ATT_HANDLE_VALUE_NTF" THEN "ntf"
    ELSE IF opc = "ATT_HANDLE_VALUE_IND" THEN "ind"
    ELSE "put"

\* The branch the reader takes for an opcode.
DispatchOf(opc) ==
    IF opc = "ATT_HANDLE_VALUE_NTF" THEN "ntf"
    ELSE IF opc = "ATT_HANDLE_VALUE_IND" THEN "ind"
    ELSE IF opc = "ATT_MULTIPLE_HANDLE_VALUE_NTF" THEN "multi"
    ELSE "put"

\* ATT_HANDLE_VALUE_NTF: if( nullptr != gattNotificationListener )
ReaderNtfCheck ==
    /\ rpc = "dispatch" /\ ~terminated
    /\ DispatchOf(rpdu.opc) = "ntf"
    /\ IF gattNotificationListener # NoListener
       THEN /\ rl' = gattNotificationListener
            /\ rpc' = "ntf_call"
            /\ UNCHANGED rpdu
       ELSE /\ rpc' = "while"           \* delete attPDU
            /\ rpdu' = NoPdu
            /\ UNCHANGED rl
    /\ UNCHANGED <<engineVars, flagVars, listenerVars, rcfm, wireVars,
                   callerVars, attPDURing, wireOut, terminated>>
    /\ UNCHANGED dataVars

\* A listener call; the slot is read again for the call, so the listener
\* called is the one tested (value kept in a register) or the slot's value
\* now.  Calling through an empty slot, or a listener that throws, ends the
\* process.
ListenerCallEnds(l) == l = NoListener \/ l = "lThrow"

\* gattNotificationListener->notificationReceived(...)
ReaderNtfCall ==
    /\ rpc = "ntf_call" /\ ~terminated
    /\ \E l \in {rl, gattNotificationListener} :
        /\ terminated' = ListenerCallEnds(l)
        /\ rpc' = IF ListenerCallEnds(l) THEN rpc ELSE "while"
    /\ rpdu' = NoPdu
    /\ UNCHANGED <<engineVars, flagVars, listenerVars, rl, rcfm, wireVars,
                   callerVars, attPDURing, wireOut>>
    /\ UNCHANGED dataVars

\* A faulty variant of CfmSent: the flag is passed on instead of send()'s result.
CfmSent_Flag(o) == sendIndicationConfirmation

\* cfmSent = send(cfm)
CfmSent(o) == o.res = "true"

\* ATT_HANDLE_VALUE_IND: if( sendIndicationConfirmation ) cfmSent = send(cfm)
\* An exception of send() leaves the thread function: std::terminate().
ReaderIndCfm ==
    /\ rpc = "dispatch" /\ ~terminated
    /\ DispatchOf(rpdu.opc) = "ind"
    /\ IF sendIndicationConfirmation
       THEN \E o \in SendOutcomes(CfmSize) :
            /\ state' = o.st
            /\ wireOut' = WireAfter(o, CfmSize)
            /\ terminated' = (o.res \in Exceptions)
            /\ rcfm' = [saw |-> TRUE,
                        sent |-> IF o.w = "none" THEN o.res ELSE o.w,
                        arg |-> CfmSent(o)]
            /\ rpc' = IF o.res \in Exceptions THEN rpc ELSE "ind_check"
       ELSE /\ rcfm' = NoCfm
            /\ rpc' = "ind_check"
            /\ UNCHANGED <<state, wireOut, terminated>>
    /\ UNCHANGED <<l2open, l2state, serverMTU, usedMTU, flagVars, listenerVars,
                   rpdu, rl, wireVars, callerVars, attPDURing>>
    /\ UNCHANGED dataVars

\* if( nullptr != gattIndicationListener )
ReaderIndCheck ==
    /\ rpc = "ind_check" /\ ~terminated
    /\ IF gattIndicationListener # NoListener
       THEN /\ rl' = gattIndicationListener
            /\ rpc' = "ind_call"
            /\ UNCHANGED rpdu
       ELSE /\ rpc' = "while"           \* delete attPDU
            /\ rpdu' = NoPdu
            /\ UNCHANGED rl
    /\ UNCHANGED <<engineVars, flagVars, listenerVars, rcfm, wireVars,
                   callerVars, attPDURing, wireOut, terminated>>
    /\ UNCHANGED dataVars

\* gattIndicationListener->indicationReceived(..., cfmSent)
ReaderIndCall ==
    /\ rpc = "ind_call" /\ ~terminated
    /\ \E l \in {rl, gattIndicationListener} :
        /\ terminated' = ListenerCallEnds(l)
        /\ rpc' = IF ListenerCallEnds(l) THEN rpc ELSE "while"
    /\ rpdu' = NoPdu
    /\ UNCHANGED <<engineVars, flagVars, listenerVars, rl, rcfm, wireVars,
                   callerVars, attPDURing, wireOut>>
    /\ UNCHANGED dataVars

\* ATT_MULTIPLE_HANDLE_VALUE_NTF: logged and deleted.
ReaderMultiNtf ==
    /\ rpc = "dispatch" /\ ~terminated
    /\ DispatchOf(rpdu.opc) = "multi"
    /\ rpc' = "while"
    /\ rpdu' = NoPdu
    /\ UNCHANGED <<engineVars, flagVars, listenerVars, rl, rcfm, wireVars,
                   callerVars, attPDURing, wireOut, terminated>>
    /\ UNCHANGED dataVars

\* attPDURing.putBlocking(attPDU): waits while the ring is full.
ReaderEnqueue ==
    /\ rpc = "dispatch" /\ ~terminated
    /\ DispatchOf(rpdu.opc) = "put"
    /\ Len(attPDURing) < RingCapacity
    /\ attPDURing' = Append(attPDURing, rpdu)
    /\ rpc' = "while"
    /\ rpdu' = NoPdu
    /\ UNCHANGED <<engineVars, flagVars, listenerVars, rl, rcfm, wireVars,
                   callerVars, wireOut, terminated>>
    /\ UNCHANGED dataVars

\* l2capReaderRunning = false; the thread function returns.
ReaderExit ==
    /\ rpc = "exit" /\ ~terminated
    /\ l2capReaderRunning' = FALSE
    /\ rpc' = "done"
    /\ UNCHANGED <<engineVars, l2capReaderShallStop, l2capReaderThread,
                   listenerVars, rpdu, rl, rcfm, wireVars, callerVars,
                   attPDURing, wireOut, terminated>>
    /\ UNCHANGED dataVars

\* ------------------------------------------------------------------------
\* The remote server
\* ------------------------------------------------------------------------

\* The server puts PDU p on the open channel.
ServerPuts(p) ==
    /\ ~terminated /\ l2open /\ nextSeq <= MaxPdus
    /\ wireIn' = Append(wireIn, p)
    /\ nextSeq' = nextSeq + 1
    /\ UNCHANGED <<engineVars, flagVars, listenerVars, readerVars, callerVars,
                   attPDURing, wireOut, terminated>>
    /\ UNCHANGED dataVars

ServerMtuRsp == \E p \in MtuRspPdus(nextSeq) : ServerPuts(p)

ServerErrorRsp == ServerPuts(ErrorRspPdu(nextSeq))

ServerNotify == \E p \in NotifyPdus(nextSeq) : ServerPuts(p)

\* The answers the server gives to the requests of procedure name: the
\* expected response with one of two values, an error, and a response to
\* some other request.
AnswersTo(name) ==
    IF name = "exchangeMTU"
    THEN { <<"ATT_EXCHANGE_MTU_RSP", 185>>, <<"ATT_ERROR_RSP", 0>> }
    ELSE IF name = "discoverPrimaryServices"
    THEN { <<"ATT_READ_BY_GROUP_TYPE_RSP", 2>>,
           <<"ATT_READ_BY_GROUP_TYPE_RSP", LastHandle>>,
           <<"ATT_ERROR_RSP", 0>>, <<"ATT_WRITE_RSP", 0>> }
    ELSE IF name \in Discoveries
    THEN { <<ExpectedRsp(name), 1>>, <<ExpectedRsp(name), 2>>,
           <<"ATT_ERROR_RSP", 0>>, <<"ATT_WRITE_RSP", 0>> }
    ELSE IF name = "readCharacteristicValue"
    THEN { <<"ATT_READ_RSP", 1>>, <<"ATT_READ_RSP", 22>>,
           <<"ATT_READ_BLOB_RSP", 0>>, <<"ATT_READ_BLOB_RSP", 22>>,
           <<"ATT_ERROR_RSP", AttributeNotLong>>, <<"ATT_WRITE_RSP", 0>> }
    ELSE IF name \in Writes
    THEN { <<"ATT_WRITE_RSP", 0>>, <<"ATT_ERROR_RSP", 0>>,
           <<"ATT_READ_RSP", 1>> }
    ELSE {}

\* The server answers, once or more often, the request the running
\* procedure has sent.
ServerResponds ==
    /\ cpc \in {"mtu_take", "p_take"}
    /\ \E a \in AnswersTo(proc.name) :
        ServerPuts([opc |-> a[1], seq |-> nextSeq, val |-> a[2]])

\* The calling thread's connect() and disconnect().
Lifecycle ==
    \/ ConnectCall
    \/ ConnectMtuSend
    \/ ConnectMtuTake
    \/ DisconnectCall
    \/ DisconnectSignal
    \/ DisconnectClose
    \/ DisconnectState
    \/ DisconnectJoin
    \/ DisconnectJoined
    \/ DisconnectReset

\* The reader thread's path for a PDU that is no notification or indication.
ReaderCore ==
    \/ ReaderInitStop
    \/ ReaderInitRunning
    \/ ReaderWhile
    \/ ReaderValidate
    \/ ReaderRead
    \/ ReaderEnqueue
    \/ ReaderExit

\* Spec: connect(), disconnect() and send() against the reader thread and a
\* server that sends responses only (the reader's notification branches
\* are never entered).
Next ==
    \/ Lifecycle
    \/ SendCall
    \/ ReaderCore
    \/ ServerMtuRsp
    \/ ServerErrorRsp

Spec == Init /\ [][Next]_vars

\* SpecReader: connect(), disconnect() and the listener setters against the
\* whole reader thread and a server that also notifies and indicates (and
\* answers requests with ATT_ERROR_RSP only).
NextReader ==
    \/ Lifecycle
    \/ SetNotificationListener
    \/ SetIndicationListener
    \/ ReaderCore
    \/ ReaderNtfCheck
    \/ ReaderNtfCall
    \/ ReaderIndCfm
    \/ ReaderIndCheck
    \/ ReaderIndCall
    \/ ReaderMultiNtf
    \/ ServerErrorRsp
    \/ ServerNotify

SpecReader == Init /\ [][NextReader]_vars

\* The steps of the reader thread.
ReaderThread ==
    \/ ReaderCore
    \/ ReaderNtfCheck
    \/ ReaderNtfCall
    \/ ReaderIndCfm
    \/ ReaderIndCheck
    \/ ReaderIndCall
    \/ ReaderMultiNtf

\* The steps of disconnect() after its call.
DisconnectRuns ==
    \/ DisconnectSignal
    \/ DisconnectClose
    \/ DisconnectState
    \/ DisconnectJoin
    \/ DisconnectJoined
    \/ DisconnectReset

\* SpecReaderFair: SpecReader where the reader thread and a caller inside
\* disconnect() go on whenever they can: both are threads the scheduler
\* runs, and neither waits for anything but what its guard says.
SpecReaderFair ==
    /\ Init
    /\ [][NextReader]_vars
    /\ WF_<<rpc, terminated>>(ReaderThread)
    /\ WF_<<cpc, terminated>>(DisconnectRuns)

\* SpecProc: connect(), disconnect() and the procedures against the reader
\* thread and a server that sends only while a request is unanswered.
NextProc ==
    \/ Lifecycle
    \/ ProcCall
    \/ ProcReturn
    \/ ProcSend
    \/ ProcTake
    \/ ReaderCore
    \/ ServerResponds

SpecProc == Init /\ [][NextProc]_vars

\* ------------------------------------------------------------------------
\* Discovery, sequentially: each pass of a procedure's loop is one step, in
\* which send() returns true or false and receiveNext() returns any answer
\* the server may give to the request.
\* ------------------------------------------------------------------------

NoConfig == [handle |-> 0, value |-> 0]

\* Elements of ATT_READ_BY_GROUP_TYPE_RSP: start handle, end handle.
GroupRsps ==
    { << [startHandle |-> 1, endHandle |-> 7] >>,
      << [startHandle |-> 1, endHandle |-> 7],
         [startHandle |-> 8, endHandle |-> 11] >>,
      << [startHandle |-> 8, endHandle |-> 11] >>,
      << [startHandle |-> 12, endHandle |-> LastHandle] >> }

\* Elements of ATT_READ_BY_TYPE_RSP for characteristics: handle of the
\* declaration, value handle.  The last answer lies outside every service.
CharRsps ==
    { << [handle |-> 2, value_handle |-> 3] >>,
      << [handle |-> 2, value_handle |-> 3],
         [handle |-> 5, value_handle |-> 6] >>,
      << [handle |-> 9, value_handle |-> 10] >>,
      << [handle |-> 7, value_handle |-> 20] >> }

\* Elements of ATT_READ_BY_TYPE_RSP for client characteristic
\* configurations: handle, value, total element size (4 is well-formed).
CccRsps ==
    { << [handle |-> 4, value |-> 1, esz |-> 4] >>,
      << [handle |-> 4, value |-> 1, esz |-> 4],
         [handle |-> 7, value |-> 2, esz |-> 4] >>,
      << [handle |-> 11, value |-> 0, esz |-> 4] >>,
      << [handle |-> 4, value |-> 1, esz |-> 6] >> }

\* What receiveNext() may return to a discovery: the expected response, an
\* error, or a response to some other request.
DiscoveryAnswers(name) ==
    { [opc |-> ExpectedRsp(name), elems |-> e] :
        e \in IF name = "discoverPrimaryServices" THEN GroupRsps
              ELSE IF name = "discoverCharacteristics" THEN CharRsps
              ELSE CccRsps }
    \cup { [opc |-> "ATT_ERROR_RSP", elems |-> <<>>],
           [opc |-> "ATT_WRITE_RSP", elems |-> <<>>] }

\* GATTPrimaryService made of a group element; no characteristics yet.
ServiceOf(e) ==
    [startHandle |-> e.startHandle, endHandle |-> e.endHandle, chars |-> <<>>]

\* GATTCharacterisicsDecl made of an element, for service srv.
DeclOf(e, srv) ==
    [service_handle |-> e.handle, service_handle_end |-> srv.endHandle,
     handle |-> e.value_handle, config |-> NoConfig]

\* The services made of the elements of a response, in element order.
ServicesOf(elems) == [i \in 1..Len(elems) |-> ServiceOf(elems[i])]

\* The declarations made of the elements of a response, in element order.
DeclsOf(elems, srv) == [i \in 1..Len(elems) |-> DeclOf(elems[i], srv)]

\* Locals of a discovery that starts at handle h, for service it (0: none),
\* called by outer ("none": by the user).
DiscoveryLocals(name, outer, it, h) ==
    [name |-> name, outer |-> outer, it |-> it, handle |-> h, done |-> FALSE]

\* A faulty variant of NextHandle: the loop variable stays at the handle.
NextHandle_Same(h, e) == h

\* The loop variable after a response whose last element has handle h, for
\* the range end e.
NextHandle(h, e) == IF h < e THEN h + 1 ELSE h

\* The request a discovery sends.
DiscoveryReq(name, it, h, e) ==
    [kind |-> name, it |-> it, startHandle |-> h, endHandle |-> e]

\* A faulty variant of ConfigBelongs: no upper end.
ConfigBelongs_NoEnd(cfg, decl, declEnd) == cfg > decl.handle

\* config_handle > decl.handle && config_handle <= decl_handle_end
ConfigBelongs(cfg, decl, declEnd) == cfg > decl.handle /\ cfg <= declEnd

\* decl_handle_end of the j-th declaration of chars.
DeclHandleEnd(chars, j) ==
    IF j + 1 <= Len(chars) THEN chars[j + 1].handle
    ELSE chars[j].service_handle_end

\* The declarations after one element of a configuration response.
AttachOne(chars, e) ==
    IF e.esz = 4
    THEN [j \in 1..Len(chars) |->
            IF ConfigBelongs(e.handle, chars[j], DeclHandleEnd(chars, j))
            THEN [chars[j] EXCEPT !.config =
                                    [handle |-> e.handle, value |-> e.value]]
            ELSE chars[j]]
    ELSE chars

\* The declarations after the elements of a configuration response, in
\* element order.
RECURSIVE AttachAll(_, _)
AttachAll(chars, elems) ==
    IF elems = <<>> THEN chars
    ELSE AttachAll(AttachOne(chars, Head(elems)), Tail(elems))

\* discoverPrimaryServices(services) is called by the user.
DiscoverPrimaryCall ==
    /\ ppc = "idle"
    /\ ppc' = "prim"
    /\ pl' = DiscoveryLocals("discoverPrimaryServices", "none", 0, 1)
    /\ services' = <<>>
    /\ requests' = <<>>
    /\ result' = "pending"
    /\ UNCHANGED <<engineVars, flagVars, listenerVars, readerVars, wireVars,
                   callerVars, attPDURing, wireOut, terminated>>

\* discoverCompletePrimaryServices() is called.
DiscoverCompleteCall ==
    /\ ppc = "idle"
    /\ ppc' = "prim"
    /\ pl' = DiscoveryLocals("discoverPrimaryServices", "complete", 0, 1)
    /\ services' = <<>>
    /\ requests' = <<>>
    /\ result' = "pending"
    /\ UNCHANGED <<engineVars, flagVars, listenerVars, readerVars, wireVars,
                   callerVars, attPDURing, wireOut, terminated>>

\* One pass of the loop of discoverPrimaryServices().
PrimaryStep ==
    /\ ppc = "prim" /\ ~pl.done /\ Len(requests) < MaxReqs
    /\ requests' = Append(requests,
                     DiscoveryReq(pl.name, 0, pl.handle, LastHandle))
    /\ \E ok \in BOOLEAN :
        IF ~ok
        THEN /\ pl' = [pl EXCEPT !.done = TRUE]
             /\ UNCHANGED services
        ELSE \E pdu \in DiscoveryAnswers(pl.name) :
             IF pdu.opc = "ATT_READ_BY_GROUP_TYPE_RSP"
             THEN LET last == pdu.elems[Len(pdu.elems)].endHandle
                  IN /\ services' = services \o ServicesOf(pdu.elems)
                     /\ pl' = [pl EXCEPT
                                 !.handle = NextHandle(last, LastHandle),
                                 !.done = ~(last < LastHandle)]
             ELSE /\ pl' = [pl EXCEPT !.done = TRUE]
                  /\ UNCHANGED services
    /\ UNCHANGED <<ppc, result>>
    /\ UNCHANGED <<engineVars, flagVars, listenerVars, readerVars, wireVars,
                   callerVars, attPDURing, wireOut, terminated>>

\* discoverCharacteristics(service) starts for the it-th service.
CharsStart(it) ==
    /\ ppc' = "chars"
    /\ pl' = DiscoveryLocals("discoverCharacteristics", "complete", it,
                             services[it].startHandle)
    /\ services' = [services EXCEPT ![it].chars = <<>>]

\* discoverClientCharacteristicConfig(service) starts for the it-th service.
ConfigStart(it) ==
    /\ ppc' = "ccc"
    /\ pl' = DiscoveryLocals("discoverClientCharacteristicConfig", "complete", it,
                             services[it].startHandle)
    /\ UNCHANGED services

\* discoverCompletePrimaryServices() goes on after the it-th service, or
\* returns the services.
NextService(it) ==
    IF it + 1 <= Len(services)
    THEN /\ CharsStart(it + 1)
         /\ UNCHANGED result
    ELSE /\ ppc' = "idle"
         /\ pl' = NoLocals
         /\ result' = "services"
         /\ UNCHANGED services

\* The procedure of the user's call returns res.
Returns(res) ==
    /\ ppc' = "idle"
    /\ pl' = NoLocals
    /\ result' = IF res THEN "true" ELSE "false"
    /\ UNCHANGED services

\* discoverPrimaryServices() returns result.size() > 0; on false
\* discoverCompletePrimaryServices() returns, else it starts its loop.
PrimaryReturn ==
    /\ ppc = "prim" /\ pl.done
    /\ IF pl.outer = "complete"
       THEN IF Len(services) > 0
            THEN NextService(0)
            ELSE /\ ppc' = "idle"
                 /\ pl' = NoLocals
                 /\ result' = "services"
                 /\ UNCHANGED services
       ELSE Returns(Len(services) > 0)
    /\ UNCHANGED requests
    /\ UNCHANGED <<engineVars, flagVars, listenerVars, readerVars, wireVars,
                   callerVars, attPDURing, wireOut, terminated>>

\* One pass of the loop of discoverCharacteristics().
CharsStep ==
    /\ ppc = "chars" /\ ~pl.done /\ Len(requests) < MaxReqs
    /\ LET srv == services[pl.it]
       IN /\ requests' = Append(requests,
                           DiscoveryReq(pl.name, pl.it, pl.handle,
                                        srv.endHandle))
          /\ \E ok \in BOOLEAN :
              IF ~ok
              THEN /\ pl' = [pl EXCEPT !.done = TRUE]
                   /\ UNCHANGED services
              ELSE \E pdu \in DiscoveryAnswers(pl.name) :
                   IF pdu.opc = "ATT_READ_BY_TYPE_RSP"
                   THEN LET last == pdu.elems[Len(pdu.elems)].handle
                        IN /\ services' =
                                [services EXCEPT ![pl.it].chars =
                                    @ \o DeclsOf(pdu.elems, srv)]
                           /\ pl' = [pl EXCEPT
                                       !.handle = NextHandle(last, srv.endHandle),
                                       !.done = ~(last < srv.endHandle)]
                   ELSE /\ pl' = [pl EXCEPT !.done = TRUE]
                        /\ UNCHANGED services
    /\ UNCHANGED <<ppc, result>>
    /\ UNCHANGED <<engineVars, flagVars, listenerVars, readerVars, wireVars,
                   callerVars, attPDURing, wireOut, terminated>>

\* A faulty variant of ConfigWanted: the configurations are always looked for.
ConfigWanted_Always(found) == TRUE

\* if( discoverCharacteristics(primSrv) ) discoverClientCharacteristicConfig()
ConfigWanted(found) == found

\* discoverCharacteristics() returns characteristicDeclList.size() > 0 to
\* discoverCompletePrimaryServices(), which goes on with the configurations
\* of the service or with the next service.
CharsReturn ==
    /\ ppc = "chars" /\ pl.done
    /\ IF ConfigWanted(Len(services[pl.it].chars) > 0)
       THEN /\ ConfigStart(pl.it)
            /\ UNCHANGED result
       ELSE NextService(pl.it)
    /\ UNCHANGED requests
    /\ UNCHANGED <<engineVars, flagVars, listenerVars, readerVars, wireVars,
                   callerVars, attPDURing, wireOut, terminated>>

\* One pass of the loop of discoverClientCharacteristicConfig().
ConfigStep ==
    /\ ppc = "ccc" /\ ~pl.done /\ Len(requests) < MaxReqs
    /\ LET srv == services[pl.it]
       IN /\ requests' = Append(requests,
                           DiscoveryReq(pl.name, pl.it, pl.handle,
                                        srv.endHandle))
          /\ \E ok \in BOOLEAN :
              IF ~ok
              THEN /\ pl' = [pl EXCEPT !.done = TRUE]
                   /\ UNCHANGED services
              ELSE \E pdu \in DiscoveryAnswers(pl.name) :
                   IF pdu.opc = "ATT_READ_BY_TYPE_RSP"
                   THEN LET last == pdu.elems[Len(pdu.elems)].handle
                        IN /\ services' =
                                [services EXCEPT ![pl.it].chars =
                                    AttachAll(@, pdu.elems)]
                           /\ pl' = [pl EXCEPT
                                       !.handle = NextHandle(last, srv.endHandle),
                                       !.done = ~(last < srv.endHandle)]
                   ELSE /\ pl' = [pl EXCEPT !.done = TRUE]
                        /\ UNCHANGED services
    /\ UNCHANGED <<ppc, result>>
    /\ UNCHANGED <<engineVars, flagVars, listenerVars, readerVars, wireVars,
                   callerVars, attPDURing, wireOut, terminated>>

\* discoverClientCharacteristicConfig() returns to
\* discoverCompletePrimaryServices(), which goes on with the next service.
ConfigReturn ==
    /\ ppc = "ccc" /\ pl.done
    /\ NextService(pl.it)
    /\ UNCHANGED requests
    /\ UNCHANGED <<engineVars, flagVars, listenerVars, readerVars, wireVars,
                   callerVars, attPDURing, wireOut, terminated>>

\* SpecDiscover: discoverPrimaryServices() and
\* discoverCompletePrimaryServices(), called one after the other.
NextDiscover ==
    \/ DiscoverPrimaryCall
    \/ DiscoverCompleteCall
    \/ PrimaryStep
    \/ PrimaryReturn
    \/ CharsStep
    \/ CharsReturn
    \/ ConfigStep
    \/ ConfigReturn

SpecDiscover == Init /\ [][NextDiscover]_vars

\* ------------------------------------------------------------------------
\* Reads and writes, sequentially: each pass of the loop of
\* readCharacteristicValue() is one step, a write is one step.
\* ------------------------------------------------------------------------

\* Values a response carries: a number of bytes and what they are ("z":
\* all of them 0).
Payloads ==
    { [size |-> 0, tag |-> ""], [size |-> 1, tag |-> "e"],
      [size |-> 5, tag |-> "d"], [size |-> 5, tag |-> "z"],
      [size |-> 22, tag |-> "a"], [size |-> 22, tag |-> "b"],
      [size |-> 34, tag |-> "c"] }

NoPayload == [size |-> 0, tag |-> ""]

\* A PDU receiveNext() returns to a read or a write.
Rsp(opc, value, code) == [opc |-> opc, value |-> value, code |-> code]

\* What receiveNext() may return to readCharacteristicValue().
ReadAnswers ==
    { Rsp(o, p, 0) : o \in {"ATT_READ_RSP", "ATT_READ_BLOB_RSP"},
                     p \in Payloads }
    \cup { Rsp("ATT_ERROR_RSP", NoPayload, AttributeNotLong),
           Rsp("ATT_ERROR_RSP", NoPayload, 1),
           Rsp("ATT_WRITE_RSP", NoPayload, 0) }

\* What receiveNext() may return to a write.
WriteAnswers ==
    { Rsp("ATT_WRITE_RSP", NoPayload, 0),
      Rsp("ATT_ERROR_RSP", NoPayload, 1),
      Rsp("ATT_READ_RSP", [size |-> 1, tag |-> "e"], 0) }

\* The handles reads and writes are called with.
ValueHandles == {3, 6}

\* The values of expectedLength readCharacteristicValue() is called with.
ReadLengths == {-1, 0, 23, 100}

\* The value a write is called with: a sequence of bytes.
WriteValues == { <<>>, <<1, 0>>, <<7>> }

\* Locals of readCharacteristicValue(decl, res, expectedLength) at its
\* start; taken: the PDUs receiveNext() returned; ga: the locals of the
\* caller.
ReadLocals(outer, h, len, ga) ==
    [name |-> "readCharacteristicValue", outer |-> outer, handle |-> h,
     expectedLength |-> len, offset |-> 0, done |-> FALSE, res |-> <<>>,
     taken |-> <<>>, ga |-> ga]

\* A faulty variant of ReadReq: ATT_READ_REQ whatever the offset.
ReadReq_NoBlob(h, offset) ==
    [kind |-> "ATT_READ_REQ", handle |-> h, offset |-> 0]

\* if( 0 == offset ) AttReadReq(decl.handle)
\* else AttReadBlobReq(decl.handle, offset)
ReadReq(h, offset) ==
    IF offset = 0
    THEN [kind |-> "ATT_READ_REQ", handle |-> h, offset |-> 0]
    ELSE [kind |-> "ATT_READ_BLOB_REQ", handle |-> h, offset |-> offset]

\* res += v
AppendValue(res, v) == IF v.size = 0 THEN res ELSE Append(res, v)

\* The locals of readCharacteristicValue() after it took pdu.
ReadAfter(p, pdu) ==
    LET q == [p EXCEPT !.taken = Append(@, pdu)]
        appended == [q EXCEPT !.res = AppendValue(@, pdu.value),
                              !.offset = @ + pdu.value.size,
                              !.done = ShortValue(pdu.value.size)]
    IN IF pdu.opc = "ATT_READ_RSP" THEN appended
       ELSE IF pdu.opc = "ATT_READ_BLOB_RSP"
       THEN IF pdu.value.size = 0 THEN [q EXCEPT !.done = TRUE]
            ELSE appended
       ELSE [q EXCEPT !.done = TRUE]

\* readCharacteristicValue() is called by the user.
ReadCall ==
    /\ ppc = "idle"
    /\ \E h \in ValueHandles, len \in ReadLengths :
         pl' = ReadLocals("none", h, len, NoLocals)
    /\ ppc' = "read"
    /\ requests' = <<>>
    /\ result' = "pending"
    /\ UNCHANGED services
    /\ UNCHANGED <<engineVars, flagVars, listenerVars, readerVars, wireVars,
                   callerVars, attPDURing, wireOut, terminated>>

\* One pass of the loop of readCharacteristicValue() that does not break,
\* the server answering with one of answers.
ReadPass(answers) ==
    /\ ppc = "read" /\ ~pl.done /\ ~ReadBreaks(pl)
    /\ Len(requests) < MaxReads
    /\ requests' = Append(requests, ReadReq(pl.handle, pl.offset))
    /\ \E ok \in BOOLEAN :
         IF ~ok
         THEN pl' = [pl EXCEPT !.done = TRUE]
         ELSE \E pdu \in answers : pl' = ReadAfter(pl, pdu)
    /\ UNCHANGED <<ppc, result, services>>
    /\ UNCHANGED <<engineVars, flagVars, listenerVars, readerVars, wireVars,
                   callerVars, attPDURing, wireOut, terminated>>

\* One pass of the loop of a readCharacteristicValue() the user called.
ReadStep ==
    /\ ppc = "read" /\ pl.outer = "none"
    /\ ReadPass(ReadAnswers)

\* A faulty variant of ReadResult: true only for a read whose last PDU was a value.
ReadResult_EndedOnValue(p) ==
    IF /\ p.offset > 0 /\ p.taken # <<>>
       /\ p.taken[Len(p.taken)].opc \in {"ATT_READ_RSP", "ATT_READ_BLOB_RSP"}
    THEN "true" ELSE "false"

\* return offset > 0
ReadResult(p) == IF p.offset > 0 THEN "true" ELSE "false"

\* readCharacteristicValue() returns to the user.
ReadReturn ==
    /\ ppc = "read" /\ pl.outer = "none"
    /\ pl.done \/ ReadBreaks(pl)
    /\ ppc' = "idle"
    /\ result' = ReadResult(pl)
    /\ UNCHANGED <<pl, requests, services>>
    /\ UNCHANGED <<engineVars, flagVars, listenerVars, readerVars, wireVars,
                   callerVars, attPDURing, wireOut, terminated>>

\* Locals of a write at its start; args: the arguments of the caller.
WriteLocals(name, outer, h, v, args) ==
    [name |-> name, outer |-> outer, handle |-> h, value |-> v,
     taken |-> <<>>, done |-> FALSE, got |-> 0, args |-> args]

\* AttWriteReq req(handle, value)
WriteReq(h, v) == [kind |-> "ATT_WRITE_REQ", handle |-> h, value |-> v]

\* writeClientCharacteristicConfigReq() or writeCharacteristicValueReq(),
\* with locals p at its start, from its call to its return.
WriteBody(p) ==
    /\ ppc = "idle"
    /\ requests' = <<WriteReq(p.handle, p.value)>>
    /\ \E ok \in BOOLEAN :
         IF ~ok
         THEN pl' = [p EXCEPT !.done = TRUE]
         ELSE \E pdu \in WriteAnswers :
                pl' = WriteTook([p EXCEPT !.taken = <<pdu>>], pdu)
    /\ result' = ProcResult(pl')
    /\ UNCHANGED <<ppc, services>>
    /\ UNCHANGED <<engineVars, flagVars, listenerVars, readerVars, wireVars,
                   callerVars, attPDURing, wireOut, terminated>>

\* writeCharacteristicValueReq(decl, value) is called by the user.
WriteCharacteristicValueReq ==
    \E h \in ValueHandles, v \in WriteValues :
        WriteBody(WriteLocals("writeCharacteristicValueReq", "none", h, v,
                              NoLocals))

\* writeClientCharacteristicConfigReq(cccd, value) is called by the user.
WriteClientCharacteristicConfigReq ==
    \E h \in ValueHandles, v \in WriteValues :
        WriteBody(WriteLocals("writeClientCharacteristicConfigReq", "none",
                              h, v, NoLocals))

\* A faulty variant of CccValue: the two bits swapped.
CccValue_Swapped(enableNotification, enableIndication) ==
    (IF enableNotification THEN 2 ELSE 0)
    + (IF enableIndication THEN 1 ELSE 0)

\* enableNotification | ( enableIndication << 1 )
CccValue(enableNotification, enableIndication) ==
    (IF enableNotification THEN 1 ELSE 0)
    + (IF enableIndication THEN 2 ELSE 0)

\* POctets ccc(2); ccc.put_uint16(0, v): the low byte first.
PutUint16(v) == << v % 256, v \div 256 >>

\* configIndicationNotification(cccd, enableNotification, enableIndication)
ConfigIndicationNotification ==
    \E h \in ValueHandles, n \in BOOLEAN, i \in BOOLEAN :
        WriteBody(WriteLocals("writeClientCharacteristicConfigReq",
                              "configIndicationNotification",
                              h, PutUint16(CccValue(n, i)),
                              [enableNotification |-> n,
                               enableIndication |-> i]))

\* SpecRead: readCharacteristicValue(), the writes and
\* configIndicationNotification(), called one after the other.
NextRead ==
    \/ ReadCall
    \/ ReadStep
    \/ ReadReturn
    \/ WriteCharacteristicValueReq
    \/ WriteClientCharacteristicConfigReq
    \/ ConfigIndicationNotification

SpecRead == Init /\ [][NextRead]_vars

\* ------------------------------------------------------------------------
\* getGenericAccess(), sequentially: each pass of its loops is one step, and
\* so is each pass of the loop of the readCharacteristicValue() it calls.
\* ------------------------------------------------------------------------

\* GattServiceType::GENERIC_ACCESS and another service.
GenericAccessUuid == 6144
DeviceInformationUuid == 6154

\* GattCharacteristicType::DEVICE_NAME, APPEARANCE,
\* PERIPHERAL_PREFERRED_CONNECTION_PARAMETERS and another characteristic.
DeviceNameUuid == 10752
AppearanceUuid == 10753
PrefConnParamUuid == 10756
SystemIdUuid == 10787

\* expectedLength of readCharacteristicValue(charDecl, value.resize(0)).
DefaultExpectedLength == -1

\* Bytes get_uint16(0) reads, and bytes the four get_uint16() of
\* PeriphalPreferredConnectionParameters(value) read.
AppearanceSize == 2
PrefConnParamSize == 8

\* A characteristic declaration of a list getGenericAccess() is given.
AccessDecl(svc, uuid, h) == [service_uuid |-> svc, uuid |-> uuid, handle |-> h]

\* The services' characteristic lists getGenericAccess() is called with.
AccessInputs ==
    LET name == AccessDecl(GenericAccessUuid, DeviceNameUuid, 3)
        appearance == AccessDecl(GenericAccessUuid, AppearanceUuid, 5)
        params == AccessDecl(GenericAccessUuid, PrefConnParamUuid, 7)
        other == AccessDecl(GenericAccessUuid, SystemIdUuid, 9)
        foreignName == AccessDecl(DeviceInformationUuid, DeviceNameUuid, 13)
        foreignParams ==
            AccessDecl(DeviceInformationUuid, PrefConnParamUuid, 17)
    IN { <<>>,
         << <<name, params>> >>,
         << <<name, appearance, params>> >>,
         << <<params, name, appearance>> >>,
         << <<foreignName, params, other>> >>,
         << <<foreignParams, foreignName>>, <<other, name, params>> >>,
         << <<>>, <<appearance, name>> >> }

\* What receiveNext() may return to a readCharacteristicValue() that
\* getGenericAccess() called.
AccessAnswers ==
    { Rsp("ATT_READ_RSP", p, 0) :
        p \in { [size |-> 0, tag |-> ""], [size |-> 1, tag |-> "e"],
                [size |-> 5, tag |-> "z"], [size |-> 8, tag |-> "p"],
                [size |-> 22, tag |-> "a"] } }
    \cup { Rsp("ATT_ERROR_RSP", NoPayload, 1) }

\* Locals of getGenericAccess(genericAccessCharDeclList) at its start, for
\* the si-th list of lists; readName, readParams: whether
\* readCharacteristicValue() returned true for a device name that is not
\* empty, and for connection parameters of full size.
AccessLocals(lists, si) ==
    [name |-> "getGenericAccess", lists |-> lists, si |-> si, i |-> 1,
     deviceName |-> <<>>, category |-> "UNKNOWN", prefConnParam |-> FALSE,
     readName |-> FALSE, readParams |-> FALSE]

\* GattNameToString(value): the value without its trailing 0 bytes.
RECURSIVE GattNameToString(_)
GattNameToString(res) ==
    IF res = <<>> THEN <<>>
    ELSE IF res[Len(res)].tag = "z"
         THEN GattNameToString(SubSeq(res, 1, Len(res) - 1))
         ELSE res

\* if( deviceName.size() > 0 && nullptr != prefConnParam )
RecordWanted(ga) == Len(ga.deviceName) > 0 /\ ga.prefConnParam

\* getGenericAccess(primServices) is called.
GenericAccessCall ==
    /\ ppc = "idle"
    /\ \E lists \in AccessInputs :
         IF lists = <<>>
         THEN /\ pl' = AccessLocals(lists, 0)
              /\ ppc' = "idle"
              /\ result' = "null"
         ELSE /\ pl' = AccessLocals(lists, 1)
              /\ ppc' = "ga"
              /\ result' = "pending"
    /\ requests' = <<>>
    /\ UNCHANGED services
    /\ UNCHANGED <<engineVars, flagVars, listenerVars, readerVars, wireVars,
                   callerVars, attPDURing, wireOut, terminated>>

\* One pass of the loop of getGenericAccess(genericAccessCharDeclList), up
\* to the call of readCharacteristicValue() if it makes one.
GenericAccessStep ==
    /\ ppc = "ga" /\ pl.i <= Len(pl.lists[pl.si])
    /\ LET charDecl == pl.lists[pl.si][pl.i]
       IN IF /\ charDecl.service_uuid = GenericAccessUuid
             /\ charDecl.uuid \in {DeviceNameUuid, AppearanceUuid,
                                   PrefConnParamUuid}
          THEN /\ ppc' = "read"
               /\ pl' = ReadLocals("getGenericAccess", charDecl.handle,
                                   DefaultExpectedLength, pl)
          ELSE /\ ppc' = "ga"
               /\ pl' = [pl EXCEPT !.i = @ + 1]
    /\ UNCHANGED <<requests, result, services>>
    /\ UNCHANGED <<engineVars, flagVars, listenerVars, readerVars, wireVars,
                   callerVars, attPDURing, wireOut, terminated>>

\* One pass of the loop of a readCharacteristicValue() that
\* getGenericAccess() called.
AccessReadStep ==
    /\ ppc = "read" /\ pl.outer = "getGenericAccess"
    /\ ReadPass(AccessAnswers)

\* readCharacteristicValue() returns to getGenericAccess(), which uses the
\* value and ends the pass of its loop.  A value shorter than the fields
\* read from it makes get_uint16() raise IndexOutOfRange.
AccessReadReturn ==
    /\ ppc = "read" /\ pl.outer = "getGenericAccess"
    /\ pl.done \/ ReadBreaks(pl)
    /\ LET ga == pl.ga
           uuid == ga.lists[ga.si][ga.i].uuid
           ok == ReadResult(pl) = "true"
           deviceName == GattNameToString(pl.res)
           raises == /\ ok
                     /\ \/ uuid = AppearanceUuid /\ pl.offset < AppearanceSize
                        \/ /\ uuid = PrefConnParamUuid
                           /\ pl.offset < PrefConnParamSize
           after ==
             IF ~ok THEN ga
             ELSE IF uuid = DeviceNameUuid
             THEN [ga EXCEPT !.deviceName = deviceName,
                             !.readName = @ \/ Len(deviceName) > 0]
             ELSE IF uuid = AppearanceUuid
             THEN [ga EXCEPT !.category = IF raises THEN @ ELSE "read"]
             ELSE [ga EXCEPT !.prefConnParam = ~raises,
                             !.readParams = @ \/ ~raises]
       IN IF raises
          THEN /\ ppc' = "idle"
               /\ pl' = after
               /\ result' = "IndexOutOfRange"
          ELSE /\ ppc' = "ga"
               /\ pl' = [after EXCEPT !.i = @ + 1]
               /\ UNCHANGED result
    /\ UNCHANGED <<requests, services>>
    /\ UNCHANGED <<engineVars, flagVars, listenerVars, readerVars, wireVars,
                   callerVars, attPDURing, wireOut, terminated>>

\* getGenericAccess(genericAccessCharDeclList) returns res;
\* getGenericAccess(primServices) returns it or goes on with the next
\* service.
GenericAccessReturn ==
    /\ ppc = "ga" /\ pl.i > Len(pl.lists[pl.si])
    /\ IF RecordWanted(pl)
       THEN /\ ppc' = "idle"
            /\ result' = "record"
            /\ UNCHANGED pl
       ELSE IF pl.si < Len(pl.lists)
       THEN /\ ppc' = "ga"
            /\ pl' = AccessLocals(pl.lists, pl.si + 1)
            /\ UNCHANGED result
       ELSE /\ ppc' = "idle"
            /\ result' = "null"
            /\ UNCHANGED pl
    /\ UNCHANGED <<requests, services>>
    /\ UNCHANGED <<engineVars, flagVars, listenerVars, readerVars, wireVars,
                   callerVars, attPDURing, wireOut, terminated>>

\* SpecAccess: getGenericAccess(), called again and again.
NextAccess ==
    \/ GenericAccessCall
    \/ GenericAccessStep
    \/ AccessReadStep
    \/ AccessReadReturn
    \/ GenericAccessReturn

SpecAccess == Init /\ [][NextAccess]_vars

\* ------------------------------------------------------------------------
\* The EIR decoder (EInfoReport::next_data_elem, read_data).  Memory is a
\* sequence of bytes read with C indices (the first byte has index 0).
\* ------------------------------------------------------------------------

\* -ENOENT is returned where the stream is truncated or used up.
ENOENT == 2

\* GAP_T, the types of the elements.
FLAGS == 1
UUID16_INCOMPLETE == 2
UUID16_COMPLETE == 3
UUID32_INCOMPLETE == 4
UUID32_COMPLETE == 5
UUID128_INCOMPLETE == 6
UUID128_COMPLETE == 7
NAME_LOCAL_SHORT == 8
NAME_LOCAL_COMPLETE == 9
TX_POWER_LEVEL == 10
SSP_CLASS_OF_DEVICE == 13
SSP_HASH_C192 == 14
SSP_RANDOMIZER_R192 == 15
DEVICE_ID == 16
SOLICIT_UUID16 == 20
SOLICIT_UUID128 == 21
SVC_DATA_UUID16 == 22
PUB_TRGT_ADDR == 23
RND_TRGT_ADDR == 24
GAP_APPEARANCE == 25
MANUFACTURE_SPECIFIC == 255

\* get_string(buffer, buffer_len, 30): at most 30 characters.
MaxNameLength == 30

\* data[i]
At(mem, i) == mem[i + 1]

\* The n bytes of mem from index i on.
Bytes(mem, i, n) == [k \in 1..n |-> mem[i + k]]

\* *const_uint8_to_const_int8_ptr(p): the byte as int8_t.
Int8(b) == IF b >= 128 THEN b - 256 ELSE b

\* get_uint16(p, i, true): little-endian.
Uint16At(mem, i) == At(mem, i) + 256 * At(mem, i + 1)

\* A report after construction.
NewReport ==
    [source |-> "NA", timestamp |-> 0, evt_type |-> 0, address_type |-> 0,
     address |-> <<0, 0, 0, 0, 0, 0>>, flags |-> 0, name |-> <<>>,
     name_short |-> <<>>, rssi |-> 0, tx_power |-> 0, device_class |-> 0,
     appearance |-> 0, hash |-> <<>>, randomizer |-> <<>>,
     did |-> <<0, 0, 0, 0>>, msd |-> <<>>, services |-> <<>>,
     eir_data_mask |-> {}]

\* set(bit)
SetBit(r, bit) == [r EXCEPT !.eir_data_mask = @ \cup {bit}]

\* A faulty variant of NextDataElem: a length of 0 is reported like a
\* truncation.
NextDataElem_EndIsError(mem, offset, size) ==
    IF offset < size
    THEN LET len == At(mem, offset)
         IN IF len = 0 \/ len + offset > size
            THEN [ret |-> -ENOENT, type |-> 0, data |-> 0, len |-> 0]
            ELSE [ret |-> offset + 1 + len, type |-> At(mem, offset + 1),
                  data |-> offset + 2, len |-> len - 1]
    ELSE [ret |-> -ENOENT, type |-> 0, data |-> 0, len |-> 0]

\* next_data_elem(&len, &type, &data, data, offset, size): what it returns,
\* and the type, the index of the net data and the net length it stores.
NextDataElem(mem, offset, size) ==
    IF offset < size
    THEN LET len == At(mem, offset)
         IN IF len = 0
            THEN [ret |-> 0, type |-> 0, data |-> 0, len |-> 0]
            ELSE IF len + offset > size
            THEN [ret |-> -ENOENT, type |-> 0, data |-> 0, len |-> 0]
            ELSE [ret |-> offset + 1 + len, type |-> At(mem, offset + 1),
                  data |-> offset + 2, len |-> len - 1]
    ELSE [ret |-> -ENOENT, type |-> 0, data |-> 0, len |-> 0]

\* addService(uuid): appended unless an equal one (same size, same value)
\* is there; no bit is set.
AddService(r, uuid) ==
    IF \E k \in 1..Len(r.services) :
          /\ r.services[k].size = uuid.size
          /\ r.services[k].value = uuid.value
    THEN r
    ELSE [r EXCEPT !.services = Append(@, uuid)]

\* for(j=0; j<elem_len/width; j++) addService(uuid of width bytes at j*width)
RECURSIVE AddServices(_, _, _, _, _, _)
AddServices(r, mem, data, width, n, j) ==
    IF j >= n THEN r
    ELSE AddServices(
            AddService(r, [size |-> width,
                           value |-> IF width = 2
                                     THEN Uint16At(mem, data + j * 2)
                                     ELSE Bytes(mem, data + j * width, width)]),
            mem, data, width, n, j + 1)

\* The types that share the case of GAP_APPEARANCE.
AppearanceTypes ==
    {SOLICIT_UUID16, SOLICIT_UUID128, SVC_DATA_UUID16, PUB_TRGT_ADDR,
     RND_TRGT_ADDR, GAP_APPEARANCE}

\* The switch of read_data() for an element e of the stream that starts at
\* index base of mem.
ApplyElem(r, mem, base, e) ==
    IF e.type = FLAGS
    THEN IF 1 <= e.len
         THEN SetBit([r EXCEPT !.flags = Int8(At(mem, e.data))], "FLAGS")
         ELSE r
    ELSE IF e.type \in {UUID16_INCOMPLETE, UUID16_COMPLETE}
    THEN AddServices(r, mem, e.data, 2, e.len \div 2, 0)
    ELSE IF e.type \in {UUID32_INCOMPLETE, UUID32_COMPLETE}
    THEN AddServices(r, mem, e.data, 4, e.len \div 4, 0)
    ELSE IF e.type \in {UUID128_INCOMPLETE, UUID128_COMPLETE}
    THEN AddServices(r, mem, e.data, 16, e.len \div 16, 0)
    ELSE IF e.type = NAME_LOCAL_SHORT
    THEN SetBit([r EXCEPT !.name_short =
                   Bytes(mem, e.data, Min(e.len, MaxNameLength))],
                "NAME_SHORT")
    ELSE IF e.type = NAME_LOCAL_COMPLETE
    THEN SetBit([r EXCEPT !.name =
                   Bytes(mem, e.data, Min(e.len, MaxNameLength))],
                "NAME")
    ELSE IF e.type = TX_POWER_LEVEL
    THEN IF 1 <= e.len
         THEN SetBit([r EXCEPT !.tx_power = Int8(At(mem, e.data))],
                     "TX_POWER")
         ELSE r
    ELSE IF e.type = SSP_CLASS_OF_DEVICE
    THEN IF 3 <= e.len
         THEN SetBit([r EXCEPT !.device_class =
                        At(mem, e.data) + 256 * At(mem, e.data + 1)
                        + 65536 * At(mem, e.data + 2)],
                     "DEVICE_CLASS")
         ELSE r
    ELSE IF e.type = DEVICE_ID
    THEN IF 8 <= e.len
         THEN SetBit([r EXCEPT !.did =
                        << Uint16At(mem, base), Uint16At(mem, base + 2),
                           Uint16At(mem, base + 4), Uint16At(mem, base + 6) >>],
                     "DEVICE_ID")
         ELSE r
    ELSE IF e.type \in AppearanceTypes
    THEN IF 2 <= e.len
         THEN SetBit([r EXCEPT !.appearance = Uint16At(mem, e.data)],
                     "APPEARANCE")
         ELSE r
    ELSE IF e.type = SSP_HASH_C192
    THEN IF 16 <= e.len
         THEN SetBit([r EXCEPT !.hash = Bytes(mem, e.data, 16)], "HASH")
         ELSE r
    ELSE IF e.type = SSP_RANDOMIZER_R192
    THEN IF 16 <= e.len
         THEN SetBit([r EXCEPT !.randomizer = Bytes(mem, e.data, 16)],
                     "RANDOMIZER")
         ELSE r
    ELSE IF e.type = MANUFACTURE_SPECIFIC
    THEN IF 2 <= e.len
         THEN SetBit([r EXCEPT !.msd =
                        << Uint16At(mem, e.data),
                           Bytes(mem, e.data + 2, e.len - 2) >>],
                     "MANUF_DATA")
         ELSE r
    ELSE r

\* The elements the streams are built of: flags, two 16 bit services, a
\* short name, a device id, a 16 bit solicitation, an appearance, an
\* appearance whose last byte is missing, the end marker, a name whose
\* bytes are missing, a negative tx power, manufacturer data and a class of
\* device.
EirElems ==
    { << 2, FLAGS, 6 >>,
      << 5, UUID16_COMPLETE, 15, 24, 10, 24 >>,
      << 6, NAME_LOCAL_SHORT, 65, 66, 67, 68, 69 >>,
      << 9, DEVICE_ID, 1, 0, 2, 0, 3, 0, 4, 0 >>,
      << 3, SOLICIT_UUID16, 15, 24 >>,
      << 3, GAP_APPEARANCE, 64, 0 >>,
      << 3, GAP_APPEARANCE, 64 >>,
      << 0 >>,
      << 4, NAME_LOCAL_COMPLETE, 65 >>,
      << 2, TX_POWER_LEVEL, 250 >>,
      << 4, MANUFACTURE_SPECIFIC, 76, 0, 2 >>,
      << 4, SSP_CLASS_OF_DEVICE, 1, 2, 3 >> }

\* The most elements of a stream.
MaxElems == 3

\* The bytes of a sequence of byte sequences, one after the other.
RECURSIVE Flatten(_)
Flatten(ss) == IF ss = <<>> THEN <<>> ELSE Head(ss) \o Flatten(Tail(ss))

\* The LTV streams read_data() is called with.
EirStreams ==
    { Flatten(ss) : ss \in UNION { [1..n -> EirElems] : n \in 0..MaxElems } }

\* What the byte behind the buffer may hold.
BeyondBytes == {0, 170}

\* The locals of read_data(data, data_length): the memory from data on, the
\* index of the stream in it, offset, count and this report.
ReadDataLocals(mem, base, size, offset, count, r) ==
    [name |-> "read_data", mem |-> mem, base |-> base, size |-> size,
     offset |-> offset, count |-> count, report |-> r]

\* The memory of pl from the start of the stream on.
StreamMem == Bytes(pl.mem, pl.base, Len(pl.mem) - pl.base)

\* What next_data_elem() gives in the state of pl.
ThisElem == NextDataElem(StreamMem, pl.offset, pl.size)

\* One pass of the loop of read_data() that takes an element.
ReadDataStep ==
    /\ ppc = "eir"
    /\ 0 < ThisElem.ret
    /\ pl' = [pl EXCEPT !.offset = ThisElem.ret,
                        !.count = @ + 1,
                        !.report = ApplyElem(@, StreamMem, 0, ThisElem)]
    /\ UNCHANGED <<engineVars, flagVars, listenerVars, readerVars, wireVars,
                   callerVars, attPDURing, wireOut, terminated,
                   services, ppc, requests, result>>

\* The pass that ends the loop: read_data() returns count.
ReadDataReturn ==
    /\ ppc = "eir"
    /\ ~(0 < ThisElem.ret)
    /\ pl' = [pl EXCEPT !.offset = ThisElem.ret]
    /\ ppc' = "eirdone"
    /\ result' = "count"
    /\ UNCHANGED <<engineVars, flagVars, listenerVars, readerVars, wireVars,
                   callerVars, attPDURing, wireOut, terminated,
                   services, requests>>

\* read_data() called on a new report with one of the streams.
InitEir ==
    /\ InitEngine
    /\ services = <<>>
    /\ requests = <<>>
    /\ result = "none"
    /\ ppc = "eir"
    /\ \E s \in EirStreams, b \in BeyondBytes :
          pl = ReadDataLocals(s \o <<b>>, 0, Len(s), 0, 0, NewReport)

NextEir == ReadDataStep \/ ReadDataReturn

SpecEir == InitEir /\ [][NextEir]_vars

\* ------------------------------------------------------------------------
\* The AD-report batches (EInfoReport::read_ad_reports).
\* ------------------------------------------------------------------------

\* The most reports of a batch (0x19).
MaxAdReports == 25

\* read_data(data, data_length) as a whole, from offset on, on the memory
\* from data on.
RECURSIVE RunReadData(_, _, _, _)
RunReadData(r, mem, offset, size) ==
    LET e == NextDataElem(mem, offset, size)
    IN IF 0 < e.ret
       THEN RunReadData(ApplyElem(r, mem, 0, e), mem, e.ret, size)
       ELSE r

\* The most reports of the batches that are built in full.
MaxReports == 2

\* The ad_data of a report: none, flags, an appearance and an appearance
\* whose last byte is missing.
AdSlices ==
    { <<>>, << 2, FLAGS, 6 >>, << 3, GAP_APPEARANCE, 64, 1 >>,
      << 3, GAP_APPEARANCE, 64 >> }

\* The entries of report i (from 0) of a batch that is built in full.
AdEvtType(i) == i + 1
AdAddressType(i) == 1 + (i % 2)
AdAddress(i) == [k \in 1..6 |-> 16 * (i + 1) + k]
AdRssi(i) == 200 + i

\* The batch of the reports with the given ad_data: the count, then the six
\* columns.
AdBatch(slices) ==
    LET n == Len(slices)
    IN << n >>
       \o [k \in 1..n |-> AdEvtType(k - 1)]
       \o [k \in 1..n |-> AdAddressType(k - 1)]
       \o Flatten([k \in 1..n |-> AdAddress(k - 1)])
       \o [k \in 1..n |-> Len(slices[k])]
       \o Flatten(slices)
       \o [k \in 1..n |-> AdRssi(k - 1)]

\* The batches that are complete.
CompleteBatches ==
    { AdBatch(ss) : ss \in UNION { [1..n -> AdSlices] : n \in 1..MaxReports } }

\* The batches read_ad_reports() is called with: the complete ones, all
\* they are cut to, those with their count replaced by 0 or by 0x1A, and a
\* batch with a count of 0x19 and two bytes.
AdBatches ==
    UNION { { SubSeq(b, 1, n) : n \in 1..Len(b) } : b \in CompleteBatches }
    \cup { << c >> \o Tail(b) : c \in {0, MaxAdReports + 1},
                                b \in CompleteBatches }
    \cup { << MaxAdReports, 1, 2 >> }

\* What the entries of ad_data_len[] hold before they are written.
UninitBytes == {0, 255}

\* getCurrentMilliseconds()
Timestamps == {1000, 2000}

\* The locals of read_ad_reports(data, data_length): the memory from data
\* on, data_length, num_reports, the loop (0 before the first, 7 after the
\* last), i, i_octets as an index, ad_data_len[], ad_reports and timestamp.
AdLocals(mem, size, u) ==
    [name |-> "read_ad_reports", mem |-> mem, size |-> size,
     num |-> At(mem, 0), col |-> 0, i |-> 0, i_octets |-> 1,
     ad_data_len |-> [k \in 1..MaxAdReports |-> u], reports |-> <<>>,
     timestamp |-> 0]

\* A faulty variant of AdCountInvalid: every count above 0 is taken.
AdCountInvalid_NoUpper(n) == 0 >= n

\* if( 0 >= num_reports || num_reports > 0x19 )
AdCountInvalid(n) == 0 >= n \/ n > MaxAdReports

\* The count is refused: the empty list is returned.
AdReject ==
    /\ ppc = "ad"
    /\ pl.col = 0
    /\ AdCountInvalid(pl.num)
    /\ ppc' = "addone"
    /\ result' = "reports"
    /\ UNCHANGED <<engineVars, flagVars, listenerVars, readerVars, wireVars,
                   callerVars, attPDURing, wireOut, terminated,
                   services, pl, requests>>

\* The count is taken: the locals are set up and the time is read.
AdAccept ==
    /\ ppc = "ad"
    /\ pl.col = 0
    /\ ~AdCountInvalid(pl.num)
    /\ \E t \in Timestamps :
          pl' = [pl EXCEPT !.col = 1, !.i = 0, !.i_octets = 1,
                           !.timestamp = t]
    /\ UNCHANGED <<engineVars, flagVars, listenerVars, readerVars, wireVars,
                   callerVars, attPDURing, wireOut, terminated,
                   services, ppc, requests, result>>

\* The bytes a loop wants before the end of the data to run a pass: the
\* condition of loop col is i_octets + AdBytesNeeded - 1 < limes.
AdBytesNeeded(l, col) ==
    IF col = 3 THEN 6
    ELSE IF col = 5 THEN l.ad_data_len[l.i + 1] + 1
    ELSE 1

\* The condition of the loop col of the locals l.
AdLoopRuns(l) ==
    /\ l.i < l.num
    /\ l.i_octets + AdBytesNeeded(l, l.col) - 1 < l.size

\* The report i of the locals l after the body of its loop.
AdBody(l) ==
    LET b == At(l.mem, l.i_octets)
        r == IF l.col = 1
             THEN [NewReport EXCEPT !.source = "AD",
                                    !.timestamp = l.timestamp]
             ELSE l.reports[l.i + 1]
    IN IF l.col = 1 THEN SetBit([r EXCEPT !.evt_type = b], "EVT_TYPE")
       ELSE IF l.col = 2
       THEN SetBit([r EXCEPT !.address_type = b], "BDADDR_TYPE")
       ELSE IF l.col = 3
       THEN SetBit([r EXCEPT !.address = Bytes(l.mem, l.i_octets, 6)],
                   "BDADDR")
       ELSE IF l.col = 4 THEN r
       ELSE IF l.col = 5
       THEN RunReadData(r, Bytes(l.mem, l.i_octets,
                                 Len(l.mem) - l.i_octets),
                        0, l.ad_data_len[l.i + 1])
       ELSE SetBit([r EXCEPT !.rssi = Int8(b)], "RSSI")

\* A faulty variant of AdAdvance: an address is taken for one byte.
AdAdvance_ByOne(l) ==
    IF l.col = 5 THEN l.ad_data_len[l.i + 1] ELSE 1

\* The bytes the body of the loop col of the locals l moves i_octets by.
AdAdvance(l) ==
    IF l.col = 3 THEN 6
    ELSE IF l.col = 5 THEN l.ad_data_len[l.i + 1]
    ELSE 1

\* One pass of one of the six loops.
AdLoopPass ==
    /\ ppc = "ad"
    /\ pl.col \in 1..6
    /\ AdLoopRuns(pl)
    /\ pl' = [pl EXCEPT
                !.reports = IF pl.col = 1 THEN Append(@, AdBody(pl))
                            ELSE [@ EXCEPT ![pl.i + 1] = AdBody(pl)],
                !.ad_data_len = IF pl.col = 4
                                THEN [@ EXCEPT ![pl.i + 1] =
                                         At(pl.mem, pl.i_octets)]
                                ELSE @,
                !.i_octets = @ + AdAdvance(pl),
                !.i = @ + 1]
    /\ UNCHANGED <<engineVars, flagVars, listenerVars, readerVars, wireVars,
                   callerVars, attPDURing, wireOut, terminated,
                   services, ppc, requests, result>>

\* The condition of a loop fails: the next loop starts with i = 0.
AdLoopExit ==
    /\ ppc = "ad"
    /\ pl.col \in 1..6
    /\ ~AdLoopRuns(pl)
    /\ pl' = [pl EXCEPT !.col = @ + 1, !.i = 0]
    /\ UNCHANGED <<engineVars, flagVars, listenerVars, readerVars, wireVars,
                   callerVars, attPDURing, wireOut, terminated,
                   services, ppc, requests, result>>

\* After the last loop ad_reports is returned.
AdReturn ==
    /\ ppc = "ad"
    /\ pl.col = 7
    /\ ppc' = "addone"
    /\ result' = "reports"
    /\ UNCHANGED <<engineVars, flagVars, listenerVars, readerVars, wireVars,
                   callerVars, attPDURing, wireOut, terminated,
                   services, pl, requests>>

\* read_ad_reports() called with one of the batches.
InitAd ==
    /\ InitEngine
    /\ services = <<>>
    /\ requests = <<>>
    /\ result = "none"
    /\ ppc = "ad"
    /\ \E b \in AdBatches, u \in UninitBytes : pl = AdLocals(b, Len(b), u)

NextAd == AdReject \/ AdAccept \/ AdLoopPass \/ AdLoopExit \/ AdReturn

SpecAd == InitAd /\ [][NextAd]_vars

\* The layout of a batch: the sum of the n entries of the ad_data_len
\* column from entry i on.
RECURSIVE AdLenSum(_, _, _)
AdLenSum(mem, i, n) ==
    IF n <= 0 THEN 0
    ELSE At(mem, 1 + 8 * At(mem, 0) + i) + AdLenSum(mem, i + 1, n - 1)

\* The index of entry i of column col in a batch whose ad_data_len column
\* is there in full.
AdEntryIndex(mem, col, i) ==
    LET n == At(mem, 0)
    IN IF col = 1 THEN 1 + i
       ELSE IF col = 2 THEN 1 + n + i
       ELSE IF col = 3 THEN 1 + 2 * n + 6 * i
       ELSE IF col = 4 THEN 1 + 8 * n + i
       ELSE IF col = 5 THEN 1 + 9 * n + AdLenSum(mem, 0, i)
       ELSE 1 + 9 * n + AdLenSum(mem, 0, n) + i

\* The ad_data_len column of the batch is there in full.
AdLensComplete(mem) == 1 + 9 * At(mem, 0) <= Len(mem)

\* All six columns of the batch are there in full, and nothing else.
AdComplete(mem) ==
    /\ ~AdCountInvalid(At(mem, 0))
    /\ AdLensComplete(mem)
    /\ Len(mem) = 1 + 10 * At(mem, 0) + AdLenSum(mem, 0, At(mem, 0))

\* The fields read_data() writes.
EirFields ==
    {"flags", "name", "name_short", "tx_power", "device_class", "appearance",
     "hash", "randomizer", "did", "msd", "services"}

\* read_data() on the ad_data of entry i of the batch.
AdDecode(r, mem, i) ==
    RunReadData(r, Bytes(mem, AdEntryIndex(mem, 5, i),
                         Len(mem) - AdEntryIndex(mem, 5, i)),
                0, At(mem, AdEntryIndex(mem, 4, i)))

\* ------------------------------------------------------------------------
\* EUI48: the constructor from a string and toString().  A string is a
\* sequence of characters; the strings are made of hex digits, ':' and 'G'.
\* ------------------------------------------------------------------------

\* The digits %X prints and the digits %x reads besides them.
UpperHex ==
    << "0", "1", "2", "3", "4", "5", "6", "7", "8", "9",
       "A", "B", "C", "D", "E", "F" >>
LowerHex ==
    << "0", "1", "2", "3", "4", "5", "6", "7", "8", "9",
       "a", "b", "c", "d", "e", "f" >>

\* The characters %x takes for digits.
IsHex(c) == \E v \in 1..16 : UpperHex[v] = c \/ LowerHex[v] = c

\* The value of a digit.
HexValue(c) == (CHOOSE v \in 1..16 : UpperHex[v] = c \/ LowerHex[v] = c) - 1

\* sscanf(str, "%02hhx:%02hhx:%02hhx:%02hhx:%02hhx:%02hhx", ...) from the
\* character at pos on, with the values vals stored so far: a ':' has to
\* match before every group but the first, a group is one or two digits,
\* and the scan ends where a character does not match.
RECURSIVE ScanGroups(_, _, _)
ScanGroups(str, pos, vals) ==
    IF Len(vals) = 6 THEN vals
    ELSE LET p == IF vals = <<>> THEN pos ELSE pos + 1
         IN IF vals # <<>> /\ (pos > Len(str) \/ str[pos] # ":") THEN vals
            ELSE IF p > Len(str) \/ ~IsHex(str[p]) THEN vals
            ELSE IF p + 1 <= Len(str) /\ IsHex(str[p + 1])
            THEN ScanGroups(str, p + 2,
                    Append(vals, 16 * HexValue(str[p]) + HexValue(str[p + 1])))
            ELSE ScanGroups(str, p + 1, Append(vals, HexValue(str[p])))

\* A faulty variant of EuiStore: the first group goes to b[0].
EuiStore_Forward(vals) == vals

\* The arguments &b[5], &b[4], ..., &b[0]: the first group goes to b[5].
\* b is kept as a sequence whose element k is b[k-1].
EuiStore(vals) == [k \in 1..6 |-> vals[7 - k]]

\* snprintf("%2.2X", v)
Hex2(v) == << UpperHex[(v \div 16) + 1], UpperHex[(v % 16) + 1] >>

\* snprintf("%2.2X:%2.2X:%2.2X:%2.2X:%2.2X:%2.2X", b[5], b[4], ..., b[0])
EuiToString(b) ==
    Hex2(b[6]) \o <<":">> \o Hex2(b[5]) \o <<":">> \o Hex2(b[4]) \o <<":">>
    \o Hex2(b[3]) \o <<":">> \o Hex2(b[2]) \o <<":">> \o Hex2(b[1])

\* The groups a string is built of at each of its six places: the group of
\* 01:23:45:67:89:AB at that place, a lower case group, a mixed one and
\* one with a character that is no digit.
EuiGroupsAt(k) ==
    { << UpperHex[2 * k - 1], UpperHex[2 * k] >>, << "a", "b" >>,
      << "c", "D" >>, << "0", "G" >> }

\* The six groups joined by ':'.
EuiJoin(g) ==
    g[1] \o <<":">> \o g[2] \o <<":">> \o g[3] \o <<":">> \o g[4]
    \o <<":">> \o g[5] \o <<":">> \o g[6]

\* The strings the constructor is called with: six groups, and strings
\* that are one character short or long.
EuiStrings ==
    LET full == { EuiJoin(g) :
                    g \in { f \in [1..6 -> UNION { EuiGroupsAt(k) : k \in 1..6 }] :
                              \A k \in 1..6 : f[k] \in EuiGroupsAt(k) } }
    IN full
       \cup { SubSeq(EuiJoin([k \in 1..6 |-> << "a", "b" >>]), 1, 16),
              EuiJoin([k \in 1..6 |-> << "a", "b" >>]) \o <<"0">> }

\* The locals: the string, b[] and what toString() returned.
EuiLocals(str, b, out) == [name |-> "EUI48", str |-> str, b |-> b, out |-> out]

\* EUI48::EUI48(str) raises IllegalArgumentException.
EuiRaises(str) == 17 # Len(str) \/ Len(ScanGroups(str, 1, <<>>)) # 6

\* The constructor raises.
EuiParseRaise ==
    /\ ppc = "eui"
    /\ EuiRaises(pl.str)
    /\ ppc' = "euiraised"
    /\ UNCHANGED <<engineVars, flagVars, listenerVars, readerVars, wireVars,
                   callerVars, attPDURing, wireOut, terminated,
                   services, pl, requests, result>>

\* The constructor stores the six octets.
EuiParse ==
    /\ ppc = "eui"
    /\ ~EuiRaises(pl.str)
    /\ pl' = [pl EXCEPT !.b = EuiStore(ScanGroups(pl.str, 1, <<>>))]
    /\ ppc' = "euiparsed"
    /\ UNCHANGED <<engineVars, flagVars, listenerVars, readerVars, wireVars,
                   callerVars, attPDURing, wireOut, terminated,
                   services, requests, result>>

\* toString() on the address that was parsed.
EuiPrint ==
    /\ ppc = "euiparsed"
    /\ pl' = [pl EXCEPT !.out = EuiToString(pl.b)]
    /\ ppc' = "euiprinted"
    /\ result' = "string"
    /\ UNCHANGED <<engineVars, flagVars, listenerVars, readerVars, wireVars,
                   callerVars, attPDURing, wireOut, terminated,
                   services, requests>>

\* The constructor called with one of the strings.
InitEui ==
    /\ InitEngine
    /\ services = <<>>
    /\ requests = <<>>
    /\ result = "none"
    /\ ppc = "eui"
    /\ \E str \in EuiStrings :
          pl = EuiLocals(str, <<0, 0, 0, 0, 0, 0>>, <<>>)

NextEui == EuiParseRaise \/ EuiParse \/ EuiPrint

SpecEui == InitEui /\ [][NextEui]_vars

\* ------------------------------------------------------------------------
\* Properties of connect(), disconnect() and send()           (under Spec)
\* ------------------------------------------------------------------------

\* C1: whenever a disconnect() called on an engine whose channel was open has
\* ended, the state is Disconnected, the channel is closed, the reader has
\* left its loop and the thread object has been joined and reset.
C1_DisconnectEndsDisconnected ==
    (cres.op = "disconnect" /\ cres.res # "pending" /\ cres.preOpen)
        => /\ state = Disconnected
           /\ ~l2open
           /\ rpc \in {"none", "done"}
           /\ ~l2capReaderRunning
           /\ l2capReaderThread = "empty"

\* C2: connect() entered while the state is above Disconnected and the
\* channel is open returns true in that step and changes nothing of the
\* engine, the reader, the queue or the channel.
C2_ConnectOnOpenIsNoOp ==
    [][(/\ cpc = "idle" /\ ncalls' = ncalls + 1 /\ cres'.op = "connect"
        /\ Disconnected < state /\ l2open)
           => /\ cres'.res = "true"
              /\ cpc' = "idle"
              /\ UNCHANGED <<engineVars, flagVars, listenerVars, readerVars,
                             wireVars, attPDURing, wireOut, proc,
                             terminated>>]_vars

\* C2 witness: a connect() on an open engine has returned true.
C2_Witness ==
    /\ cres.op = "connect" /\ cres.res = "true" /\ cpc = "idle"
    /\ cres.preOpen /\ Disconnected < cres.preState

\* C3: disconnect() entered in state Disconnected returns (false) in that
\* step, raises nothing and changes nothing.
C3_DisconnectOnClosedIsNoOp ==
    [][(/\ cpc = "idle" /\ ncalls' = ncalls + 1 /\ cres'.op = "disconnect"
        /\ state = Disconnected)
           => /\ cres'.res = "false"
              /\ cpc' = "idle"
              /\ UNCHANGED <<engineVars, flagVars, listenerVars, readerVars,
                             wireVars, attPDURing, wireOut, proc,
                             terminated>>]_vars

\* C3 witness: a second disconnect(), after a connect() that negotiated the
\* MTU and a disconnect() that closed the engine, has returned.
C3_Witness ==
    /\ cres.op = "disconnect" /\ cres.res = "false" /\ cpc = "idle"
    /\ cres.preState = Disconnected /\ ~cres.preOpen
    /\ serverMTU = 185 /\ l2capReaderThread = "empty" /\ ~terminated

\* C4: while neither connect() nor disconnect() is executing, the three
\* open-ness flags agree.
C4_FlagsAgreeAtRest ==
    (cpc = "idle" /\ ~terminated) => (FlagA = FlagB /\ FlagB = FlagC)

\* C8 as stated: send() of a PDU larger than usedMTU raises IllegalArgument,
\* writes nothing and leaves the state as it was.
C8_OversizeRaisesIllegalArgument ==
    (cres.op = "send" /\ cres.arg > usedMTU)
        => /\ cres.res = "IllegalArgument"
           /\ cres.w = "none"
           /\ state = cres.preState

\* C8: send() of a PDU larger than usedMTU never writes and leaves the state
\* as it was; it raises IllegalArgument when the engine is open, returns
\* false when it is not open, and raises InvalidState when the flags
\* disagree.
C8_OversizeNeverWritten ==
    (cres.op = "send" /\ cres.arg > usedMTU)
        => /\ cres.w = "none"
           /\ state = cres.preState
           /\ cres.res = IF (Disconnected < cres.preState) # cres.preOpen
                         THEN "InvalidState"
                         ELSE IF cres.preOpen THEN "IllegalArgument"
                         ELSE "false"

\* C8 witness: a PDU of 186 bytes was refused with IllegalArgument on an
\* open engine whose usedMTU is 185.
C8_Witness ==
    /\ cres.op = "send" /\ cres.res = "IllegalArgument"
    /\ cres.arg = 186 /\ usedMTU = 185 /\ cres.preOpen

\* C9 as stated: after a connect() that took an MTU response carrying r > 0,
\* serverMTU = min(ClientMaxMTU, r) and usedMTU = min(ClientMaxMTU, serverMTU).
C9_ServerMTUIsCapped ==
    (cres.op = "connect" /\ cres.res = "true" /\ ~cres.preOpen /\ cres.arg > 0)
        => /\ serverMTU = Min(ClientMaxMTU, cres.arg)
           /\ usedMTU = Min(ClientMaxMTU, serverMTU)

\* C9: after a connect() that took an MTU response carrying r > 0,
\* serverMTU = r (uncapped) and usedMTU = min(ClientMaxMTU, r).
C9_OnlyUsedMTUIsCapped ==
    (cres.op = "connect" /\ cres.res = "true" /\ ~cres.preOpen /\ cres.arg > 0)
        => /\ serverMTU = cres.arg
           /\ usedMTU = Min(ClientMaxMTU, cres.arg)

\* C9 witness: the server answered 513; serverMTU is 513, usedMTU is 512.
C9_Witness ==
    /\ cres.op = "connect" /\ cres.res = "true" /\ ~cres.preOpen
    /\ cres.arg = 513 /\ serverMTU = 513 /\ usedMTU = 512

\* C10: a send() whose write fails returns false and leaves the state Error;
\* a send() on an engine that is not open returns false and writes nothing.
C10_SendFailureModes ==
    cres.op = "send"
        => /\ cres.w = "error" => (cres.res = "false" /\ state = Error)
           /\ ~(Disconnected < cres.preState /\ cres.preOpen)
                  => (cres.res = "false" /\ cres.w = "none")

\* C5: in connect()'s exchangeMTU() and in every procedure, a PDU leaves the
\* inbound queue only as its head and only when the procedure has had
\* exactly one send() return true since its previous take (or its start) and
\* its last send() did not fail; no procedure ever has two such sends
\* without a take between them.
C5_OneSendPerTake ==
    [][/\ proc'.sends <= 1
       /\ Len(attPDURing') < Len(attPDURing)
              => /\ attPDURing' = Tail(attPDURing)
                 /\ cpc \in {"mtu_take", "p_take"}
                 /\ proc.sends = 1 /\ proc.sendRes
                 /\ proc'.sends = 0]_vars

\* C5 witness: primary-service discovery has taken its second PDU.
C5_Witness ==
    /\ proc.name = "discoverPrimaryServices" /\ proc.takes = 2
    /\ cpc = "p_loop" /\ proc.sends = 0

\* ------------------------------------------------------------------------
\* Properties of the reader thread                       (under SpecReader)
\* ------------------------------------------------------------------------

\* C6 as stated: when the indication listener is called with confirmation
\* enabled, the confirmation has been written and the listener's argument
\* is true.
C6_ListenerAlwaysToldTrue ==
    (rpc = "ind_call" /\ rcfm.saw) => (rcfm.sent = "full" /\ rcfm.arg)

\* C6: when the indication listener is called with confirmation enabled,
\* send() of the confirmation has returned, and the listener's argument is
\* true exactly when the confirmation was written completely.
C6_ListenerToldSendResult ==
    (rpc = "ind_call" /\ rcfm.saw)
        => /\ rcfm.sent \in {"full", "short", "error", "false"}
           /\ rcfm.arg <=> (rcfm.sent = "full")

\* C6 witness: the listener is being called with true after the
\* confirmation went out.
C6_Witness ==
    /\ rpc = "ind_call" /\ rcfm.saw /\ rcfm.arg /\ rcfm.sent = "full"
    /\ wireOut = CfmSize /\ rpdu.opc = "ATT_HANDLE_VALUE_IND"

\* C7: the queue holds PDUs in arrival order (ascending sequence numbers)
\* and never a notification or an indication; the reader's step for any other PDU appends that PDU, and
\* its step for a notification or an indication leaves the queue alone.
C7_QueueHoldsResponsesInOrder ==
    [][/\ \A i, j \in 1..Len(attPDURing') :
              i < j => attPDURing'[i].seq < attPDURing'[j].seq
       /\ \A i \in 1..Len(attPDURing') :
              attPDURing'[i].opc \notin NotifyOpcodes
       /\ (rpc = "dispatch" /\ rpc' # rpc /\ rpdu.opc \notin NotifyOpcodes)
              => attPDURing' = Append(attPDURing, rpdu)
       /\ (rpc = "dispatch" /\ rpc' # rpc /\ rpdu.opc \in NotifyOpcodes)
              => attPDURing' = attPDURing]_vars

\* C7 witness: two responses are queued in the order they arrived.
C7_Witness ==
    /\ Len(attPDURing) = 2
    /\ attPDURing[1].seq = 1 /\ attPDURing[2].seq = 2

\* ------------------------------------------------------------------------
\* Properties of the discoveries                        (under SpecDiscover)
\* ------------------------------------------------------------------------

\* C11: in every service list a discovery produces, whatever the server
\* answers, the value handle of each characteristic lies between the start
\* handle and the end handle of its service.
C11_ValueHandlesInsideService ==
    \A i \in 1..Len(services) :
        \A j \in 1..Len(services[i].chars) :
            /\ services[i].startHandle <= services[i].chars[j].handle
            /\ services[i].chars[j].handle <= services[i].endHandle

\* C12: a configuration attached to a characteristic has a handle above the
\* characteristic's value handle and not above the value handle of the next
\* characteristic of the service, or the service's end handle for the last.
C12_ConfigBetweenValueHandles ==
    \A i \in 1..Len(services) :
        \A j \in 1..Len(services[i].chars) :
            LET chars == services[i].chars
                upper == IF j < Len(chars) THEN chars[j + 1].handle
                         ELSE services[i].endHandle
            IN chars[j].config # NoConfig
               => /\ chars[j].handle < chars[j].config.handle
                  /\ chars[j].config.handle <= upper

C12_Witness ==
    \E i \in 1..Len(services) :
        /\ Len(services[i].chars) = 2
        /\ services[i].chars[1].config.handle = 4
        /\ services[i].chars[2].config.handle = 7

\* C13: discoverCompletePrimaryServices() sends the requests of the primary
\* discovery first, then service by service in list order those of the
\* characteristic discovery followed by those of the configuration
\* discovery; configurations are looked for only in a service in which a
\* characteristic was found; without a primary service no other request is
\* sent; when it returns every service had its characteristic discovery.
C13_CompleteDiscoveryOrder ==
    ((ppc # "idle" /\ pl.outer = "complete") \/ result = "services")
    => /\ requests # <<>> => requests[1].kind = "discoverPrimaryServices"
       /\ \A i, j \in 1..Len(requests) :
            i < j =>
              /\ requests[j].kind = "discoverPrimaryServices"
                 => requests[i].kind = "discoverPrimaryServices"
              /\ requests[i].kind # "discoverPrimaryServices"
                 => requests[i].it <= requests[j].it
              /\ (/\ requests[i].kind = "discoverClientCharacteristicConfig"
                  /\ requests[i].it = requests[j].it)
                 => requests[j].kind = "discoverClientCharacteristicConfig"
       /\ \A i \in 1..Len(requests) :
            requests[i].kind # "discoverPrimaryServices"
            => /\ requests[i].it \in 1..Len(services)
               /\ requests[i].endHandle = services[requests[i].it].endHandle
               /\ \E k \in 1..i :
                    /\ requests[k].kind = "discoverCharacteristics"
                    /\ requests[k].it = requests[i].it
               /\ requests[i].it > 1
                  => \E k \in 1..i :
                       /\ requests[k].kind = "discoverCharacteristics"
                       /\ requests[k].it = requests[i].it - 1
               /\ requests[i].kind = "discoverClientCharacteristicConfig"
                  => services[requests[i].it].chars # <<>>
       /\ result = "services"
          => \A k \in 1..Len(services) :
               \E i \in 1..Len(requests) :
                  /\ requests[i].kind = "discoverCharacteristics"
                  /\ requests[i].it = k

C13_Witness ==
    /\ result = "services"
    /\ Len(services) = 2
    /\ services[1].chars = <<>>
    /\ \E i \in 1..Len(requests) :
          /\ requests[i].kind = "discoverClientCharacteristicConfig"
          /\ requests[i].it = 2

\* ------------------------------------------------------------------------
\* Properties of the reads and writes                       (under SpecRead)
\* ------------------------------------------------------------------------

\* C14: readCharacteristicValue() sends ATT_READ_REQ(handle) first and
\* ATT_READ_BLOB_REQ(handle, offset) for every later request, with offset
\* the number of value bytes appended so far; the output is the
\* concatenation in order of the values of the responses taken.  With
\* expectedLength 100, usedMTU 23 and values of 22, 22, 22 and 34 bytes the
\* output holds 100 bytes and the result is true.
C14_ReadRequestsAndOutput ==
    pl.name = "readCharacteristicValue"
    => LET isValue(i) == pl.taken[i].opc \in {"ATT_READ_RSP",
                                              "ATT_READ_BLOB_RSP"}
           sizeOf(i) == IF isValue(i) THEN pl.taken[i].value.size ELSE 0
           bytes[i \in 0..Len(pl.taken)] ==
               IF i = 0 THEN 0 ELSE bytes[i - 1] + sizeOf(i)
           values[i \in 0..Len(pl.taken)] ==
               IF i = 0 THEN <<>>
               ELSE IF isValue(i) /\ sizeOf(i) > 0
                    THEN Append(values[i - 1], pl.taken[i].value)
                    ELSE values[i - 1]
       IN /\ \A i \in 1..Len(requests) :
               /\ i - 1 <= Len(pl.taken)
               /\ requests[i].handle = pl.handle
               /\ requests[i].offset = bytes[i - 1]
               /\ requests[i].kind = IF i = 1 THEN "ATT_READ_REQ"
                                     ELSE "ATT_READ_BLOB_REQ"
          /\ pl.res = values[Len(pl.taken)]
          /\ pl.offset = bytes[Len(pl.taken)]
          /\ (/\ ppc = "idle"
              /\ pl.expectedLength = 100
              /\ usedMTU = 23
              /\ Len(pl.taken) = 4
              /\ pl.taken[1].opc = "ATT_READ_RSP"
              /\ \A i \in 2..4 : pl.taken[i].opc = "ATT_READ_BLOB_RSP"
              /\ [i \in 1..4 |-> pl.taken[i].value.size] = <<22, 22, 22, 34>>)
             => /\ bytes[4] = 100
                /\ Len(pl.res) = 4
                /\ Len(requests) = 4
                /\ result = "true"

C14_Witness ==
    /\ pl.name = "readCharacteristicValue"
    /\ ppc = "idle"
    /\ result = "true"
    /\ pl.expectedLength = 100
    /\ pl.offset = 100
    /\ [i \in 1..Len(pl.res) |-> pl.res[i].tag] = <<"a", "b", "a", "c">>
    /\ [i \in 1..Len(requests) |-> requests[i].offset] = <<0, 22, 44, 66>>

\* C15: readCharacteristicValue() sends no request once expectedLength > 0
\* and offset >= expectedLength, or expectedLength = 0 and a response was
\* appended, or the value of the last response was shorter than
\* usedMTU - 1, or the last response was an empty blob, or it was an
\* ATT_ERROR_RSP with AttributeNotLong.  With expectedLength = 0 it sends
\* exactly one request.
C15_ReadStops ==
    [][ (/\ pl.name = "readCharacteristicValue"
         /\ pl'.name = "readCharacteristicValue")
        => LET last == pl.taken[Len(pl.taken)]
               isValue == last.opc \in {"ATT_READ_RSP", "ATT_READ_BLOB_RSP"}
               stop ==
                  \/ pl.expectedLength > 0 /\ pl.offset >= pl.expectedLength
                  \/ /\ pl.expectedLength = 0
                     /\ \E i \in 1..Len(pl.taken) :
                          pl.taken[i].opc \in {"ATT_READ_RSP",
                                               "ATT_READ_BLOB_RSP"}
                  \/ /\ pl.taken # <<>>
                     /\ \/ isValue /\ last.value.size < usedMTU - 1
                        \/ last.opc = "ATT_READ_BLOB_RSP"
                           /\ last.value.size = 0
                        \/ last.opc = "ATT_ERROR_RSP"
                           /\ last.code = AttributeNotLong
           IN /\ (ppc = "read" /\ Len(requests') > Len(requests)) => ~stop
              /\ pl.expectedLength = 0
                 => /\ Len(requests') <= 1
                    /\ (ppc = "read" /\ ppc' = "idle") => Len(requests) = 1
      ]_vars

C15_Witness ==
    /\ pl.name = "readCharacteristicValue"
    /\ ppc = "idle"
    /\ pl.expectedLength = 0
    /\ Len(requests) = 1
    /\ Len(pl.taken) = 1
    /\ pl.taken[1].opc = "ATT_READ_RSP"
    /\ pl.taken[1].value.size = 22

C17_ConfigValueWritten ==
    (pl.name \in Writes /\ pl.outer = "configIndicationNotification")
    => LET n == pl.args.enableNotification
           i == pl.args.enableIndication
           bytes == IF n /\ ~i THEN <<1, 0>>
                    ELSE IF ~n /\ i THEN <<2, 0>>
                    ELSE IF n /\ i THEN <<3, 0>>
                    ELSE <<0, 0>>
       IN requests = << [kind |-> "ATT_WRITE_REQ", handle |-> pl.handle,
                         value |-> bytes] >>

C17_Witness ==
    /\ pl.name \in Writes
    /\ pl.outer = "configIndicationNotification"
    /\ pl.args.enableNotification /\ ~pl.args.enableIndication
    /\ requests[1].value = <<1, 0>>
    /\ result = "true"

\* ------------------------------------------------------------------------
\* Properties of the listener setters and of the reader (under SpecReader)
\* ------------------------------------------------------------------------

\* C18: setGATTNotificationListener(l) and setGATTIndicationListener(l, c)
\* install l and return the listener installed just before: none for the
\* first call, and for a later call the argument of the call before it on
\* the same slot, since nothing else changes a slot.
C18_SetterReturnsPrevious ==
    [][ LET ntf == cres'.op = "setNtf" /\ ncalls' = ncalls + 1
            ind == cres'.op = "setInd" /\ ncalls' = ncalls + 1
        IN /\ ntf => /\ cres'.res = gattNotificationListener
                     /\ gattNotificationListener' = cres'.l
                     /\ cres.op = "setNtf" => cres'.res = cres.l
           /\ ind => /\ cres'.res = gattIndicationListener
                     /\ gattIndicationListener' = cres'.l
                     /\ cres.op = "setInd" => cres'.res = cres.l
           /\ (ntf \/ ind) /\ ncalls = 0 => cres'.res = NoListener
           /\ ~ntf => gattNotificationListener' = gattNotificationListener
           /\ ~ind => gattIndicationListener' = gattIndicationListener
      ]_vars

C18_Witness ==
    /\ ncalls = 3
    /\ cres.op = "setInd"
    /\ cres.res = "lA"
    /\ cres.l = "lThrow"
    /\ gattIndicationListener = "lThrow"
    /\ gattNotificationListener = "lA"

\* C19: a failure raised inside a notification or indication listener is
\* caught by the reader and never ends it: after the reader's call of a
\* listener that throws, the process still runs and the reader is back at
\* the top of its loop.
C19_ListenerFailureIsCaught ==
    [][ (\/ /\ rpc = "ntf_call"
            /\ rl = "lThrow" /\ gattNotificationListener = "lThrow"
         \/ /\ rpc = "ind_call"
            /\ rl = "lThrow" /\ gattIndicationListener = "lThrow")
        => (rpdu' # rpdu => ~terminated' /\ rpc' = "while")
      ]_vars

\* ------------------------------------------------------------------------
\* Properties of getGenericAccess()                       (under SpecAccess)
\* ------------------------------------------------------------------------

\* C20: getGenericAccess() returns a record if and only if a device name
\* that is not empty and the preferred connection parameters were both read
\* from characteristics of the service 0x1800, whatever happens to the
\* read of the appearance; no request is sent for a characteristic of
\* another service.
C20_RecordIffNameAndParams ==
    (ppc = "idle" /\ pl.name = "getGenericAccess")
    => /\ result = "record" <=> (pl.readName /\ pl.readParams)
       /\ \A k \in 1..Len(requests) :
            \E si \in 1..Len(pl.lists) :
               \E i \in 1..Len(pl.lists[si]) :
                  /\ pl.lists[si][i].handle = requests[k].handle
                  /\ pl.lists[si][i].service_uuid = GenericAccessUuid

\* ------------------------------------------------------------------------
\* Properties of the EIR decoder                            (under SpecEir)
\* ------------------------------------------------------------------------

\* C21: every pass of read_data() that takes an element counts it and does
\* to the report what the decode table assigns to the type of the element,
\* on the data of that element: a type the table does not name changes no
\* field, and a type it names sets its field from the element's own bytes.
C21_TableActionPerElement ==
    [][(ppc = "eir" /\ 0 < ThisElem.ret) =>
          LET e == ThisElem
              own == Bytes(StreamMem, e.data, e.len)
          IN /\ pl'.count = pl.count + 1
             /\ pl'.report =
                   IF e.type \in AppearanceTypes \ {GAP_APPEARANCE}
                   THEN pl.report
                   ELSE ApplyElem(pl.report, own, 0, [e EXCEPT !.data = 0])
      ]_vars

\* C22: while and after read_data() decodes a stream, every field of the
\* report that reads back other than in a new report has its bit in the
\* dirty mask; a report with a service has the SERVICE_UUID bit.
C22_DirtyMaskCoversFields ==
    ppc \in {"eir", "eirdone"} =>
       LET r == pl.report
           m == r.eir_data_mask
       IN /\ r.flags # NewReport.flags => "FLAGS" \in m
          /\ r.name # NewReport.name => "NAME" \in m
          /\ r.name_short # NewReport.name_short => "NAME_SHORT" \in m
          /\ r.tx_power # NewReport.tx_power => "TX_POWER" \in m
          /\ r.device_class # NewReport.device_class => "DEVICE_CLASS" \in m
          /\ r.did # NewReport.did => "DEVICE_ID" \in m
          /\ r.appearance # NewReport.appearance => "APPEARANCE" \in m
          /\ r.msd # NewReport.msd => "MANUF_DATA" \in m
          /\ r.services # <<>> => "SERVICE_UUID" \in m

\* C23: where the length byte at the offset is 0 the iterator returns 0, and
\* where the length plus the offset exceeds the size it returns a negative
\* value; in both cases read_data() ends its loop in that pass, with the
\* report and the count as they were.
C23_EndAndTruncationStop ==
    [][(ppc = "eir" /\ pl.offset < pl.size
          /\ (At(StreamMem, pl.offset) = 0
                \/ At(StreamMem, pl.offset) + pl.offset > pl.size)) =>
          /\ ppc' = "eirdone"
          /\ pl'.offset = 0 <=> At(StreamMem, pl.offset) = 0
          /\ pl'.offset < 0 <=> At(StreamMem, pl.offset) # 0
          /\ pl'.report = pl.report
          /\ pl'.count = pl.count
      ]_vars

\* read_data() has returned at an end marker that follows one element and
\* is followed by more bytes.
C23_Witness ==
    /\ ppc = "eirdone"
    /\ pl.offset = 0
    /\ pl.count = 1
    /\ pl.size > 4
    /\ pl.report.flags = 6

\* ------------------------------------------------------------------------
\* Properties of read_ad_reports()                           (under SpecAd)
\* ------------------------------------------------------------------------

\* C24: where the first byte of the batch is 0 or above 0x19,
\* read_ad_reports() runs none of its loops, creates no report and returns
\* the empty list.
C24_InvalidCountGivesNoReport ==
    (ppc \in {"ad", "addone"}
       /\ (At(pl.mem, 0) = 0 \/ At(pl.mem, 0) > 25)) =>
          /\ pl.reports = <<>>
          /\ pl.col = 0

\* read_ad_reports() has returned the empty list for a batch with a count
\* of 0x1A that is followed by the columns of two reports.
C24_Witness ==
    /\ ppc = "addone"
    /\ At(pl.mem, 0) = 26
    /\ pl.size > 19
    /\ pl.reports = <<>>

\* C25: for a batch with a column that is cut short, read_ad_reports()
\* returns the reports of the entries of the first column that are there,
\* and every field of report i is either as in a new report or the value of
\* entry i of the column of that field, which lies inside the batch; the
\* rssi is never taken from bytes of another column.
C25_TruncatedColumnsStayApart ==
    (ppc = "addone" /\ ~AdCountInvalid(At(pl.mem, 0))
       /\ ~AdComplete(pl.mem)) =>
       LET mem == pl.mem
           n == At(mem, 0)
           In(col, i, w) ==
               /\ col >= 4 => AdLensComplete(mem)
               /\ AdEntryIndex(mem, col, i) + w <= Len(mem)
       IN /\ Len(pl.reports) = Min(n, Len(mem) - 1)
          /\ \A k \in 1..Len(pl.reports) :
                LET r == pl.reports[k]
                    i == k - 1
                IN /\ r.evt_type = At(mem, AdEntryIndex(mem, 1, i))
                   /\ \/ r.address_type = NewReport.address_type
                      \/ /\ In(2, i, 1)
                         /\ r.address_type = At(mem, AdEntryIndex(mem, 2, i))
                   /\ \/ r.address = NewReport.address
                      \/ /\ In(3, i, 6)
                         /\ r.address = Bytes(mem, AdEntryIndex(mem, 3, i), 6)
                   /\ \/ \A f \in EirFields : r[f] = NewReport[f]
                      \/ /\ In(4, i, 1)
                         /\ In(5, i, At(mem, AdEntryIndex(mem, 4, i)))
                         /\ \A f \in EirFields :
                               r[f] = AdDecode(NewReport, mem, i)[f]
                   /\ \/ r.rssi = NewReport.rssi
                      \/ /\ In(6, i, 1)
                         /\ r.rssi = Int8(At(mem, AdEntryIndex(mem, 6, i)))

\* C30: for a batch whose six columns are all complete, read_ad_reports()
\* returns as many reports as the count says, and report i holds entry i of
\* the evt_type, address_type and address columns, what read_data() gives
\* for the slice i of the ad_data column with the length ad_data_len[i],
\* entry i of the rssi column, and the one timestamp of the call.
C30_CompleteBatchDecoded ==
    (ppc = "addone" /\ AdComplete(pl.mem)) =>
       /\ Len(pl.reports) = At(pl.mem, 0)
       /\ \A k \in 1..Len(pl.reports) :
             LET r == pl.reports[k]
                 i == k - 1
                 mem == pl.mem
             IN /\ r.source = "AD"
                /\ r.timestamp = pl.timestamp
                /\ r.evt_type = At(mem, AdEntryIndex(mem, 1, i))
                /\ r.address_type = At(mem, AdEntryIndex(mem, 2, i))
                /\ r.address = Bytes(mem, AdEntryIndex(mem, 3, i), 6)
                /\ \A f \in EirFields : r[f] = AdDecode(NewReport, mem, i)[f]
                /\ r.rssi = Int8(At(mem, AdEntryIndex(mem, 6, i)))

\* read_ad_reports() has returned two reports for a complete batch whose
\* first report has flags and whose second has an appearance.
C30_Witness ==
    /\ ppc = "addone"
    /\ AdComplete(pl.mem)
    /\ Len(pl.reports) = 2
    /\ pl.reports[1].flags = 6
    /\ pl.reports[2].appearance = 320
    /\ pl.reports[2].rssi = -55

\* ------------------------------------------------------------------------
\* Properties of EUI48                                      (under SpecEui)
\* ------------------------------------------------------------------------

\* C26: for a string of 17 characters that is six groups of two hex digits
\* with a ':' between them, the constructor does not raise, stores the
\* leftmost group as the last octet b[5] and the rightmost as b[0], and
\* toString() gives the string in upper case; 01:23:45:67:89:AB gives the
\* octets AB 89 67 45 23 01.
C26_ParsePrintRoundTrip ==
    LET s == pl.str
        valid == /\ Len(s) = 17
                 /\ \A k \in 1..17 :
                       IF k % 3 = 0 THEN s[k] = ":" ELSE IsHex(s[k])
        upper == [k \in 1..Len(s) |->
                    IF IsHex(s[k]) THEN UpperHex[HexValue(s[k]) + 1] ELSE s[k]]
    IN (ppc \in {"euiraised", "euiparsed", "euiprinted"} /\ valid) =>
          /\ ppc # "euiraised"
          /\ \A g \in 1..6 :
                pl.b[7 - g] = 16 * HexValue(s[3 * g - 2]) + HexValue(s[3 * g - 1])
          /\ s = << "0", "1", ":", "2", "3", ":", "4", "5", ":", "6", "7",
                    ":", "8", "9", ":", "A", "B" >>
                => pl.b = << 171, 137, 103, 69, 35, 1 >>
          /\ ppc = "euiprinted" => pl.out = upper

\* toString() has returned for a string with lower case digits whose
\* leftmost group is ab and whose rightmost is cD.
C26_Witness ==
    /\ ppc = "euiprinted"
    /\ SubSeq(pl.str, 1, 3) = << "a", "b", ":" >>
    /\ SubSeq(pl.str, 15, 17) = << ":", "c", "D" >>
    /\ pl.b[6] = 171
    /\ pl.b[1] = 205
    /\ SubSeq(pl.out, 15, 17) = << ":", "C", "D" >>

\* ------------------------------------------------------------------------
\* Properties of discoverPrimaryServices()             (under SpecDiscover)
\* ------------------------------------------------------------------------

\* C27: the first request of discoverPrimaryServices() has the start handle
\* 0x0001 and the end handle 0xFFFF; every pass of its loop sends one
\* request from the loop handle to 0xFFFF and, where a response with
\* elements is taken, appends their services in order and goes on from the
\* end handle of the last one plus 1, unless that is 0xFFFF; in every other
\* case the loop is done, and the return leaves every service collected.
C27_PrimaryDiscoveryLoop ==
    [][/\ (ppc = "idle" /\ ppc' = "prim") =>
             /\ pl'.handle = 1
             /\ ~pl'.done
             /\ services' = <<>>
       /\ (ppc = "prim" /\ requests' # requests) =>
             /\ requests' = Append(requests,
                   [kind |-> "discoverPrimaryServices", it |-> 0,
                    startHandle |-> pl.handle, endHandle |-> 65535])
             /\ Len(services') >= Len(services)
             /\ SubSeq(services', 1, Len(services)) = services
             /\ IF Len(services') > Len(services)
                THEN LET last == services'[Len(services')].endHandle
                     IN /\ pl'.done <=> last = 65535
                        /\ ~pl'.done => pl'.handle = last + 1
                ELSE pl'.done
       /\ (ppc = "prim" /\ pl.done) =>
             /\ services' = services
             /\ requests' = requests
             /\ pl.outer = "none" =>
                   /\ ppc' = "idle"
                   /\ result' = IF Len(services) > 0 THEN "true" ELSE "false"
      ]_vars

\* discoverPrimaryServices() has returned true with the services 1..7 and
\* 8..11 after a second request that started at 12 and got no elements.
C27_Witness ==
    /\ ppc = "idle"
    /\ result = "true"
    /\ Len(requests) = 2
    /\ requests[1].startHandle = 1
    /\ requests[2].startHandle = 12
    /\ requests[2].endHandle = 65535
    /\ Len(services) = 2
    /\ services[1].startHandle = 1 /\ services[1].endHandle = 7
    /\ services[2].startHandle = 8 /\ services[2].endHandle = 11

\* ------------------------------------------------------------------------
\* Properties of the procedures on an unexpected opcode    (under SpecProc)
\* ------------------------------------------------------------------------

C28_DisconnectEnds ==
    (cpc = "disc_sig") ~> (cpc = "idle" /\ rpc = "done")

\* ------------------------------------------------------------------------
\* Properties of single elements of the EIR decoder         (under SpecEir)
\* ------------------------------------------------------------------------

\* C31: a pass of read_data() that takes a DEVICE_ID element with at least
\* 8 bytes of data sets the four parts of the device id to the four
\* little-endian 16 bit values of the bytes 0..7 of the data of that
\* element, wherever the element stands in the stream.
C31_DeviceIdFromOwnData ==
    [][(ppc = "eir" /\ 0 < ThisElem.ret /\ ThisElem.type = DEVICE_ID
          /\ 8 <= ThisElem.len) =>
          LET d == ThisElem.data
          IN pl'.report.did =
                << Uint16At(StreamMem, d), Uint16At(StreamMem, d + 2),
                   Uint16At(StreamMem, d + 4), Uint16At(StreamMem, d + 6) >>
      ]_vars

\* C37: the type byte and every data byte of an element the iterator yields
\* have indices below the size of the buffer.
C37_ElementInsideBuffer ==
    (ppc = "eir" /\ 0 < ThisElem.ret) =>
       /\ ThisElem.data - 1 < pl.size
       /\ ThisElem.data + ThisElem.len <= pl.size

\* C38: a pass of read_data() that takes an element of a type other than
\* GAP_APPEARANCE leaves the appearance of the report and the APPEARANCE
\* bit of its mask as they were.
C38_OnlyAppearanceSetsAppearance ==
    [][(ppc = "eir" /\ 0 < ThisElem.ret /\ ThisElem.type # GAP_APPEARANCE) =>
          /\ pl'.report.appearance = pl.report.appearance
          /\ ("APPEARANCE" \in pl'.report.eir_data_mask)
                <=> ("APPEARANCE" \in pl.report.eir_data_mask)
      ]_vars

\* ------------------------------------------------------------------------
\* The reader against disconnect() and the listener setters
\*                                                      (under SpecReader)
\* ------------------------------------------------------------------------

\* C32: the validateState() of the reader never raises InvalidState while
\* a disconnect() is executing: no step of the reader at its check, taken
\* between the entry of disconnect() and its return, ends the process.
C32_ReaderCheckNeverRaisesInDisconnect ==
    [][ (/\ rpc = "validate"
         /\ cpc \in {"disc_sig", "disc_close", "disc_state", "disc_join",
                     "disc_joining", "disc_reset"}
         /\ cpc' = cpc /\ rpc' = rpc)
        => ~terminated'
      ]_vars

\* C33: the listener the reader calls is never an empty slot: a call of
\* the reader where neither the listener it tested nor the listener in the
\* slot throws returns, and the reader goes back to the top of its loop.
C33_ReaderNeverCallsEmptySlot ==
    [][ (\/ /\ rpc = "ntf_call"
            /\ "lThrow" \notin {rl, gattNotificationListener}
         \/ /\ rpc = "ind_call"
            /\ "lThrow" \notin {rl, gattIndicationListener})
        => (rpdu' # rpdu => ~terminated' /\ rpc' = "while")
      ]_vars

\* ------------------------------------------------------------------------
\* Procedures against a server that answers each request once
\*                                                   (under SpecOneAnswer)
\* ------------------------------------------------------------------------

\* The PDUs the server has put that no procedure has taken yet: on the
\* channel, in the hand of the reader, or in the queue.
Inbound ==
    Len(wireIn) + (IF rpdu = NoPdu THEN 0 ELSE 1) + Len(attPDURing)

\* The server answers the request of the running procedure, once: the
\* request was sent, the caller waits for the answer, and no PDU is on its
\* way to it.
ServerAnswersOnce ==
    /\ 0 < proc.sends /\ Inbound = 0
    /\ ServerResponds

NextOneAnswer ==
    \/ Lifecycle
    \/ ProcCall
    \/ ProcReturn
    \/ ProcSend
    \/ ProcTake
    \/ ReaderCore
    \/ ServerAnswersOnce

SpecOneAnswer == Init /\ [][NextOneAnswer]_vars

\* The caller is about to send a request: exchangeMTU() inside connect(),
\* or a procedure inside its loop.
AboutToSend ==
    \/ cpc = "mtu_send"
    \/ cpc = "p_loop" /\ ~proc.done /\ ~ReadBreaks(proc)

\* C34: with one answer by the server to each request and no other PDU,
\* the queue is empty and no PDU is on its way whenever a procedure sends
\* a request, the queue never holds more than one PDU, and the PDU a
\* procedure takes is the last one the server has put, an answer to the
\* request of this procedure.
C34_TakenPduAnswersLastRequest ==
    [][/\ AboutToSend => attPDURing = <<>> /\ Inbound = 0
       /\ Len(attPDURing') <= 1
       /\ (cpc \in {"mtu_take", "p_take"} /\ cpc' # cpc) =>
             /\ Head(attPDURing).seq = nextSeq - 1
             /\ <<Head(attPDURing).opc, Head(attPDURing).val>>
                    \in AnswersTo(proc.name)
             /\ attPDURing' = <<>>
      ]_vars

\* connect() has taken the answer to its ATT_EXCHANGE_MTU_REQ, and a
\* discovery called afterwards has taken the answer to its first request,
\* the second PDU of the server.
C34_Witness ==
    /\ cpc = "p_loop"
    /\ proc.name \in Discoveries
    /\ proc.takes = 1
    /\ proc.pdu = ExpectedRsp(proc.name)
    /\ nextSeq = 3
    /\ attPDURing = <<>>

\* ------------------------------------------------------------------------
\* The start handles of the discoveries                   (under SpecProc)
\* ------------------------------------------------------------------------

\* C35: the start handle of a request a discovery sends is not below the
\* start handle of its range (it has not wrapped past 0xFFFF); and
\* after a response that is not empty and whose last handle is not below
\* the start handle of the request, the discovery either is done or goes
\* on with a higher start handle that is not above its end bound, so that
\* it ends after finitely many requests.
C35_StartHandlesRiseToEnd ==
    [][/\ (cpc = "p_loop" /\ cpc' = "p_take" /\ proc.name \in Discoveries) =>
             proc.startHandle <= proc.handle
       /\ (cpc = "p_take" /\ cpc' = "p_loop" /\ proc.name \in Discoveries
             /\ Head(attPDURing).opc = ExpectedRsp(proc.name)
             /\ proc.handle <= Head(attPDURing).val) =>
             \/ proc'.done
             \/ /\ proc.handle < proc'.handle
                /\ proc'.handle <= proc.endHandle
      ]_vars

\* ------------------------------------------------------------------------
\* The result of readCharacteristicValue()                (under SpecRead)
\* ------------------------------------------------------------------------

====
